---- MODULE Spec2Model ----
(***************************************************************************)
(* Replication convergence wait loop (ds_repl_wait.run_module), the        *)
(* adaptive retry executor with its circuit breaker (retry_utils), and the *)
(* provisioning modules ds_repl_agreement, ds_repl_enable and ds_repl_init  *)
(* with the LDAP command runner of dsldap.                                 *)
(*                                                                         *)
(* The specifications of this module:                                      *)
(*   SpecBreaker    CircuitBreaker driven by arbitrary call sequences      *)
(*   SpecRetry      AdaptiveRetry.execute_with_retry, call after call      *)
(*   Spec           run_module of ds_repl_wait, one poll cycle per step    *)
(*   SpecCycle      the same over two cycles and many agreement entries    *)
(*   SpecPace       the same from the caller's parameters, longer runs     *)
(*   SpecAgreement  ds_repl_agreement run after run on one directory       *)
(*   SpecEnable     ds_repl_enable run after run on one server             *)
(*   SpecDrift      ds_repl_wait over two cycles on an unchanged agreement *)
(*   SpecLdap       DsLdap._run_with_retry, one call                       *)
(*   SpecInit       ds_repl_init, one run                                  *)
(* Times are whole seconds unless a definition says otherwise.             *)
(***************************************************************************)
EXTENDS Integers, Sequences, FiniteSets, TLC

VARIABLES
    cb,         \* CircuitBreaker fields: threshold, timeout, failure_count, last_failure_time, state
    now,        \* time.time()
    can_ret,    \* what the last can_execute call returned: "none", "true", "false"
    streak,     \* history: record_failure calls since construction or the last record_success
    last_call,  \* history: the CircuitBreaker method the last step called last ("none": no call)
    ar,         \* AdaptiveRetry fields: config, retry_count, last_delay (circuit_breaker is cb)
    call,       \* the running execute_with_retry call: pc, attempt, last_exception, delay
    rh,         \* history of execute_with_retry: calls, invoked, slept, delays, outcome, result
    p,          \* ds_repl_wait: module.params
    wpc,        \* ds_repl_wait: where run_module stands: "resolve", "loop", "sleep", "done"
    target_dns, \* ds_repl_wait: the agreements waited on
    ok_streak,  \* ds_repl_wait: consecutive passing cycles counted by the loop
    cycle,      \* ds_repl_wait: number of the poll cycle
    last_obs,   \* ds_repl_wait: the observations of the latest cycle
    hints,      \* ds_repl_wait: the hints gathered (read only through set(hints))
    prev_by_dn, \* ds_repl_wait: per agreement, the trend values of its previous observation
    backlog_by_name, \* ds_repl_wait: the latest successful backlog sample
    elapsed,    \* ds_repl_wait: whole seconds since start_ts at the latest decision
    exit,       \* ds_repl_wait: what exit_json / fail_json / an uncaught exception reported
    wh,         \* history of ds_repl_wait: the verdicts of the latest decision step
    dir,        \* the directory server: replication enabled for the suffix, the agreement entries
    agmt_run,   \* ds_repl_agreement: parameters, runs so far, result and operations of the latest run
    enable_run, \* ds_repl_enable: parameters, position in run_module, commands and result of the run
    ldap_call,  \* DsLdap._run_with_retry: attempt, last_err, the runs and sleeps so far, the result
    init_run    \* ds_repl_init: parameters, position in run_module, polls, last_out, result

breakerHist == <<can_ret, streak, last_call>>
retryVars == <<ar, call, rh>>
waitVars == <<p, wpc, target_dns, ok_streak, cycle, last_obs, hints, prev_by_dn,
              backlog_by_name, elapsed, exit, wh>>

toolVars == <<ldap_call, init_run>>
provVars == <<dir, agmt_run, enable_run, toolVars>>

vars == <<cb, now, can_ret, streak, last_call, ar, call, rh,
          p, wpc, target_dns, ok_streak, cycle, last_obs, hints, prev_by_dn,
          backlog_by_name, elapsed, exit, wh, dir, agmt_run, enable_run,
          ldap_call, init_run>>

\* Python's None for an optional value: <<>> is None, <<v>> is the value v
Nil == <<>>
Some(v) == <<v>>
IsNil(x) == x = <<>>
Val(x) == x[1]

-----------------------------------------------------------------------------
(* Bounds of the model *)

MaxThreshold == 3       \* thresholds 1..MaxThreshold are explored (and the documented 5)
MaxFailures == 6        \* record_failure is explored while failure_count < MaxFailures
MaxClock == 8           \* clock readings explored for the small cooldown
MaxRetries == 2         \* max_retries -1..MaxRetries are explored
MaxCalls == 2           \* execute_with_retry calls explored on one AdaptiveRetry instance
SmallCooldown == 2      \* the small cooldown explored beside the default

(* Program constants *)
DefaultThreshold == 5   \* CircuitBreaker.__init__ threshold default
DefaultCooldown == 60   \* CircuitBreaker.__init__ timeout default
DefaultConfiguredTimeout == 20  \* ds_repl_wait: int(... or 20)
DefaultStartTimeout == 30       \* ds_repl_wait: int(... or 30)
DefaultDoneTimeout == 120       \* ds_repl_wait: int(... or 120)
DefaultMonitorEvery == 3        \* ds_repl_wait: p.get('monitor_every', 3)

-----------------------------------------------------------------------------
(* CircuitBreaker *)

CircuitBreakerInit(threshold, timeout) ==
    [threshold |-> threshold, timeout |-> timeout,
     failure_count |-> 0, last_failure_time |-> 0, state |-> "CLOSED"]

\* Mutant of can_execute: after the cooldown the breaker closes at once
can_execute_closes_after_cooldown(b, t) ==
    IF b.state = "CLOSED" THEN [ret |-> TRUE, cb |-> b]
    ELSE IF b.state = "OPEN" THEN
        IF t - b.last_failure_time > b.timeout
        THEN [ret |-> TRUE, cb |-> [b EXCEPT !.state = "CLOSED"]]
        ELSE [ret |-> FALSE, cb |-> b]
    ELSE [ret |-> TRUE, cb |-> b]

\* can_execute: the returned flag and the breaker afterwards
can_execute(b, t) ==
    IF b.state = "CLOSED" THEN [ret |-> TRUE, cb |-> b]
    ELSE IF b.state = "OPEN" THEN
        IF t - b.last_failure_time > b.timeout
        THEN [ret |-> TRUE, cb |-> [b EXCEPT !.state = "HALF_OPEN"]]
        ELSE [ret |-> FALSE, cb |-> b]
    ELSE [ret |-> TRUE, cb |-> b]

\* record_success that forgets to reset the failure count
record_success_keeps_count(b) == [b EXCEPT !.state = "CLOSED"]

record_success(b) == [b EXCEPT !.failure_count = 0, !.state = "CLOSED"]

\* record_failure that opens one failure late (> instead of >=)
record_failure_late(b, t) ==
    [b EXCEPT !.failure_count = b.failure_count + 1,
              !.last_failure_time = t,
              !.state = IF b.failure_count + 1 > b.threshold THEN "OPEN" ELSE b.state]

record_failure(b, t) ==
    [b EXCEPT !.failure_count = b.failure_count + 1,
              !.last_failure_time = t,
              !.state = IF b.failure_count + 1 >= b.threshold THEN "OPEN" ELSE b.state]

\* Clock advances explored: just short of, equal to and just past the cooldown
ClockSteps == {cb.timeout - 1, cb.timeout, cb.timeout + 1}

-----------------------------------------------------------------------------
(* Exact rationals <<numerator, denominator>> for delays (floats in the    *)
(* code): base_delay, the multiplier 1.5 and the jitter factor.            *)

RECURSIVE GCD(_, _)
GCD(a, b) == IF b = 0 THEN a ELSE GCD(b, a % b)

Q(n, d) == LET g == GCD(n, d) IN IF g = 0 THEN <<0, 1>> ELSE <<n \div g, d \div g>>
QMul(x, y) == Q(x[1] * y[1], x[2] * y[2])
QLeq(x, y) == x[1] * y[2] <= y[1] * x[2]
QLess(x, y) == x[1] * y[2] < y[1] * x[2]
QMin(x, y) == IF QLeq(x, y) THEN x ELSE y
QCeil(x) == (x[1] + x[2] - 1) \div x[2]

-----------------------------------------------------------------------------
(* Strings as sequences of characters: str(exception).lower() and the      *)
(* substring test `keyword in error_msg`.                                  *)

UpperChars == <<"A", "B", "C", "D", "E", "F", "G", "H", "I", "J", "K", "L", "M", "N", "O", "P", "Q", "R", "S", "T", "U", "V", "W", "X", "Y", "Z">>
LowerChars == <<"a", "b", "c", "d", "e", "f", "g", "h", "i", "j", "k", "l", "m", "n", "o", "p", "q", "r", "s", "t", "u", "v", "w", "x", "y", "z">>

LowerChar(c) ==
    IF \E i \in 1..Len(UpperChars) : UpperChars[i] = c
    THEN LowerChars[CHOOSE i \in 1..Len(UpperChars) : UpperChars[i] = c]
    ELSE c

StrLower(s) == [i \in 1..Len(s) |-> LowerChar(s[i])]

StrContains(s, k) ==
    \E i \in 1..(Len(s) - Len(k) + 1) : SubSeq(s, i, i + Len(k) - 1) = k

-----------------------------------------------------------------------------
(* AdaptiveRetry *)

None == [type |-> "None", msg |-> <<>>]

\* Messages of the errors the wrapped operation is explored to raise
MsgBusy == <<"S", "e", "r", "v", "e", "r", " ", "i", "s", " ", "B", "U", "S", "Y">>
MsgInvalidCreds == <<"I", "n", "v", "a", "l", "i", "d", " ", "c", "r", "e", "d", "e", "n", "t", "i", "a", "l", "s">>
MsgUnknownAttr == <<"U", "n", "k", "n", "o", "w", "n", " ", "a", "t", "t", "r", "i", "b", "u", "t", "e">>

OpErrors ==
    {[type |-> "Exception", msg |-> m] : m \in {MsgBusy, MsgInvalidCreds, MsgUnknownAttr}}

\* The f-string of line 110 reads self.failure_count, which AdaptiveRetry
\* never sets (only its circuit_breaker has it): evaluating it raises this
\* AttributeError before the intended Exception is built.
BreakerRefusedError ==
    [type |-> "AttributeError",
     msg |-> <<"'", "A", "d", "a", "p", "t", "i", "v", "e", "R", "e", "t", "r", "y", "'", " ", "o", "b", "j", "e", "c", "t", " ", "h", "a", "s", " ", "n", "o", " ", "a", "t", "t", "r", "i", "b", "u", "t", "e", " ", "'", "f", "a", "i", "l", "u", "r", "e", "_", "c", "o", "u", "n", "t", "'">>]

\* `raise last_exception` with last_exception None
RaiseNoneError == [type |-> "TypeError", msg |-> <<>>]

retryable_errors ==
    << <<"t", "i", "m", "e", "o", "u", "t">>,
       <<"c", "o", "n", "n", "e", "c", "t", "i", "o", "n">>,
       <<"n", "e", "t", "w", "o", "r", "k">>,
       <<"t", "e", "m", "p", "o", "r", "a", "r", "y">>,
       <<"b", "u", "s", "y">>,
       <<"l", "o", "c", "k", "e", "d">>,
       <<"r", "e", "s", "o", "u", "r", "c", "e">>,
       <<"u", "n", "a", "v", "a", "i", "l", "a", "b", "l", "e">>,
       <<"c", "a", "n", "'", "t", " ", "c", "o", "n", "t", "a", "c", "t">>,
       <<"u", "n", "k", "n", "o", "w", "n">>,
       <<"i", "n", " ", "p", "r", "o", "g", "r", "e", "s", "s">>,
       <<"u", "p", "d", "a", "t", "e", " ", "i", "n", " ", "p", "r", "o", "g", "r", "e", "s", "s">> >>

\* should_retry that takes every error for a transient one
should_retry_any(exception) == TRUE

should_retry(exception) ==
    LET error_msg == StrLower(exception.msg)
    IN \E i \in 1..Len(retryable_errors) : StrContains(error_msg, retryable_errors[i])

\* random.uniform(0.5, 1.5): its two ends
JitterFactors == {<<1, 2>>, <<3, 2>>}

\* calculate_delay with the jitter factor drawn: the delay returned and the
\* instance afterwards (last_delay is the jittered delay)
calculate_delay(a, jitter_factor) ==
    LET d0 == IF a.retry_count = 0
              THEN a.config.base_delay
              ELSE QMin(QMul(a.last_delay, a.config.backoff_multiplier), a.config.max_delay)
        d1 == IF a.config.jitter THEN QMul(d0, jitter_factor) ELSE d0
    IN [delay |-> d1, ar |-> [a EXCEPT !.last_delay = d1]]

RetryConfig(max_retries, base_delay, max_delay, backoff_multiplier, jitter, threshold) ==
    [max_retries |-> max_retries, base_delay |-> base_delay, max_delay |-> max_delay,
     backoff_multiplier |-> backoff_multiplier, jitter |-> jitter,
     circuit_breaker_threshold |-> threshold]

AdaptiveRetryInit(config) ==
    [config |-> config, retry_count |-> 0, last_delay |-> config.base_delay]

NoRetry == AdaptiveRetryInit(RetryConfig(0, <<0, 1>>, <<0, 1>>, <<1, 1>>, FALSE, 1))
NoCall == [pc |-> "idle", attempt |-> 0, last_exception |-> None, delay |-> <<0, 1>>]
NoResult == [kind |-> "none", exc |-> None]
NoHistory == [calls |-> 0, invoked |-> 0, slept |-> 0, delays |-> <<>>,
              outcome |-> "none", error |-> None, result |-> NoResult,
              began |-> 0]   \* began: failure_count of the breaker when the call was entered

-----------------------------------------------------------------------------
(* ds_repl_wait: reading the directory (_observations)                     *)

Digits == <<"0", "1", "2", "3", "4", "5", "6", "7", "8", "9">>
IsDigit(c) == \E i \in 1..Len(Digits) : Digits[i] = c
DigitVal(c) == (CHOOSE i \in 1..Len(Digits) : Digits[i] = c) - 1

\* int() of the run of digits of s that starts at position i
RECURSIVE ReadDigits(_, _, _)
ReadDigits(s, i, acc) ==
    IF i <= Len(s) /\ IsDigit(s[i])
    THEN ReadDigits(s, i + 1, acc * 10 + DigitVal(s[i]))
    ELSE acc

\* _CODE_RE.search(s) with _CODE_RE = (-?\d+): the leftmost integer of s, or None
CodeSearch(s) ==
    LET starts == {i \in 1..Len(s) :
                      \/ IsDigit(s[i])
                      \/ s[i] = "-" /\ i < Len(s) /\ IsDigit(s[i + 1])}
        i0 == CHOOSE i \in starts : \A j \in starts : i <= j
    IN IF starts = {} THEN Nil
       ELSE IF s[i0] = "-" THEN Some(0 - ReadDigits(s, i0 + 1, 0))
       ELSE Some(ReadDigits(s, i0, 0))

\* str.strip() for blanks
RECURSIVE StrStrip(_)
StrStrip(s) ==
    IF s = <<>> THEN s
    ELSE IF Head(s) = " " THEN StrStrip(Tail(s))
    ELSE IF s[Len(s)] = " " THEN StrStrip(SubSeq(s, 1, Len(s) - 1))
    ELSE s

\* the values read as true: ('on', 'true', 'yes', '1')
TruthyWords == {<<"o", "n">>, <<"t", "r", "u", "e">>, <<"y", "e", "s">>, <<"1">>}

\* _gtz_to_epoch: a generalized time that matches the pattern gives its epoch
\* seconds, anything else None. A timestamp is [gtz |-> BOOLEAN, epoch |-> Int].
gtz_to_epoch(value) == IF value.gtz THEN Some(value.epoch) ELSE Nil

\* dict.get on a map kept as a function
Get(m, k) == IF k \in DOMAIN m THEN Some(m[k]) ELSE Nil
Put(m, k, v) == [x \in DOMAIN m \cup {k} |-> IF x = k THEN v ELSE m[x]]
EmptyMap == [x \in {} |-> 0]

\* str.find(c): the first position of c in s, 0 when absent
IndexOf(s, c) ==
    IF \E i \in 1..Len(s) : s[i] = c
    THEN CHOOSE i \in 1..Len(s) : s[i] = c /\ \A j \in 1..(i - 1) : s[j] # c
    ELSE 0

\* _cn_from_dn: the value of a leading cn= RDN, else the DN itself (also when
\* the first RDN has no '=' and the unpacking raises)
cn_from_dn(dn) ==
    LET ic == IndexOf(dn, ",")
        rdn == IF ic = 0 THEN dn ELSE SubSeq(dn, 1, ic - 1)
        ie == IndexOf(rdn, "=")
    IN IF ie = 0 THEN dn
       ELSE IF StrLower(StrStrip(SubSeq(rdn, 1, ie - 1))) = <<"c", "n">>
            THEN SubSeq(rdn, ie + 1, Len(rdn))
            ELSE dn

\* r_enabled of _observations: the replica entry is [found, enabled]
ReplicaEnabled(rep) ==
    IF ~rep.found \/ IsNil(rep.enabled) THEN Nil
    ELSE Some(StrLower(Val(rep.enabled)) \in TruthyWords)

\* Mutant of MissingObservation: the snapshot carries no 'missing' marker
missing_observation_unmarked(dn, r_enabled) ==
    [dn |-> dn, enabled |-> Nil, busy |-> Nil, update_start_epoch |-> Nil,
     update_code |-> Nil, update_age |-> Nil, init_code |-> Nil,
     update_status |-> Nil, init_status |-> Nil,
     replica_enabled |-> r_enabled, status |-> "unknown"]
\* Line 221: the snapshot of an agreement whose read raised (the keys
\* update_status and init_status are absent there, and read as None)
MissingObservation(dn, r_enabled) ==
    [dn |-> dn, enabled |-> Nil, busy |-> Nil, update_start_epoch |-> Nil,
     update_code |-> Nil, update_age |-> Nil, init_code |-> Nil,
     update_status |-> Nil, init_status |-> Nil,
     replica_enabled |-> r_enabled, status |-> "missing"]

\* One element of _observations' result. The entry e is what search_one gave:
\* [found, enabled, init_status, upd_status, upd_start, upd_end, busy], each
\* attribute None or its first value; t is int(time.time()) of line 168.
Observation(dn, e, r_enabled, t) ==
    IF ~e.found
    THEN MissingObservation(dn, r_enabled)
    ELSE
        LET m_i == IF IsNil(e.init_status) THEN Nil ELSE CodeSearch(Val(e.init_status))
            m_u == IF IsNil(e.upd_status) THEN Nil ELSE CodeSearch(Val(e.upd_status))
            upd_epoch == IF IsNil(e.upd_end) THEN Nil ELSE gtz_to_epoch(Val(e.upd_end))
            upd_start_epoch == IF IsNil(e.upd_start) THEN Nil ELSE gtz_to_epoch(Val(e.upd_start))
        IN [dn |-> dn,
            enabled |-> IF IsNil(e.enabled) THEN Nil
                        ELSE Some(StrLower(Val(e.enabled)) \in TruthyWords),
            busy |-> IF IsNil(e.busy) THEN Nil
                     ELSE Some(StrLower(StrStrip(Val(e.busy))) \in TruthyWords),
            update_start_epoch |-> upd_start_epoch,
            update_code |-> m_u,
            update_age |-> IF IsNil(upd_epoch) THEN Some(-1) ELSE Some(t - Val(upd_epoch)),
            init_code |-> m_i,
            update_status |-> e.upd_status,
            init_status |-> e.init_status,
            replica_enabled |-> r_enabled,
            status |-> "unknown"]

observations(rep, entries, agmt_dns, t) ==
    [i \in 1..Len(agmt_dns) |-> Observation(agmt_dns[i], entries[i], ReplicaEnabled(rep), t)]

-----------------------------------------------------------------------------
(* ds_repl_wait: the aggregates of one cycle (lines 354-413)               *)

KwSucceed == <<"s", "u", "c", "c", "e", "e", "d">>
KwAcquired == <<"a", "c", "q", "u", "i", "r", "e", "d", " ", "s", "u", "c", "c", "e", "s", "s", "f", "u", "l", "l", "y">>
KwIncremental == <<"i", "n", "c", "r", "e", "m", "e", "n", "t", "a", "l", " ", "u", "p", "d", "a", "t", "e", " ", "s", "u", "c", "c", "e", "e", "d", "e", "d">>

\* Mutant of IsEnabled: only a definite false counts as not enabled
is_enabled_unless_false(o) == o.enabled # Some(FALSE)
\* Line 366: o.get('enabled') is True
IsEnabled(o) == o.enabled = Some(TRUE)

\* Mutant of ReplicaDisabled: an unknown replica state counts as disabled
replica_disabled_unless_true(o) == o.replica_enabled # Some(TRUE)
\* Line 405: o.get('replica_enabled') is False
ReplicaDisabled(o) == o.replica_enabled = Some(FALSE)

\* Line 407
InitFailed(o, params) == params.require_init_success /\ o.init_code \notin {Nil, Some(0)}

\* Mutant of UpdateFailed: a non-zero code is a failure at any age
update_failed_any_age(o, stale) == o.update_code \notin {Nil, Some(0)}
\* Line 409
UpdateFailed(o, stale) ==
    /\ o.update_code \notin {Nil, Some(0)}
    /\ (IsNil(o.update_age) \/ Val(o.update_age) < 0 \/ Val(o.update_age) > stale)

\* The body of `for o in last_obs` for one observation: acc carries
\* configured_met, working_met, finished_met, unhealthy, prev_by_dn and, for
\* each agreement, the values of the loop's locals (facts).
AgmtStep(acc, o, backlog, now_epoch, params) ==
    LET prev == Get(acc.prev_by_dn, o.dn)
        start_e == o.update_start_epoch
        age == o.update_age
        end_e == IF ~IsNil(age) /\ Val(age) >= 0 THEN Some(now_epoch - Val(age)) ELSE Nil
        moving ==
            /\ ~IsNil(prev)
            /\ \/ /\ ~IsNil(start_e) /\ ~IsNil(Val(prev).update_start_epoch)
                  /\ Val(start_e) > Val(Val(prev).update_start_epoch)
               \/ /\ ~IsNil(end_e) /\ ~IsNil(Val(prev).end_epoch)
                  /\ Val(end_e) > Val(Val(prev).end_epoch)
               \/ /\ ~IsNil(age) /\ ~IsNil(Val(prev).age)
                  /\ Val(age) < Val(Val(prev).age)
        uc == o.update_code
        us == IF IsNil(o.update_status) THEN <<>> ELSE StrLower(Val(o.update_status))
        is_success ==
            \/ uc = Some(0)
            \/ StrContains(us, KwSucceed)
            \/ StrContains(us, KwAcquired)
            \/ StrContains(us, KwIncremental)
        stale == params.stale_seconds
        recent_ok == uc = Some(0) /\ ~IsNil(age) /\ Val(age) >= 0 /\ Val(age) <= stale
        busy == o.busy = Some(TRUE)
        init_ok == o.init_code \in {Nil, Some(0)} \/ ~params.require_init_success
        blv == Get(backlog, cn_from_dn(o.dn))
        bl_ok == IF IsNil(blv) THEN TRUE ELSE Val(blv) = 0
        agmt_finished == ~busy /\ init_ok /\ recent_ok /\ bl_ok
        u1 == IF ReplicaDisabled(o)
              THEN << <<o.dn, "replica disabled">> >> ELSE <<>>
        u2 == IF InitFailed(o, params)
              THEN << <<o.dn, "init_code!=0">> >> ELSE <<>>
        u3 == IF UpdateFailed(o, stale)
              THEN << <<o.dn, "update_code!=0">> >> ELSE <<>>
    IN [configured_met |-> acc.configured_met /\ IsEnabled(o),
        working_met |-> acc.working_met \/ busy \/ moving \/ recent_ok,
        finished_met |-> acc.finished_met /\ agmt_finished,
        unhealthy |-> acc.unhealthy \o u1 \o u2 \o u3,
        prev_by_dn |-> Put(acc.prev_by_dn, o.dn,
                           [update_start_epoch |-> start_e, end_epoch |-> end_e, age |-> age]),
        facts |-> Append(acc.facts,
                         [moving |-> moving, is_success |-> is_success,
                          recent_ok |-> recent_ok, busy |-> busy, init_ok |-> init_ok,
                          bl_ok |-> bl_ok, agmt_finished |-> agmt_finished])]

RECURSIVE AgmtFold(_, _, _, _, _, _)
AgmtFold(acc, obs, i, backlog, now_epoch, params) ==
    IF i > Len(obs) THEN acc
    ELSE AgmtFold(AgmtStep(acc, obs[i], backlog, now_epoch, params),
                  obs, i + 1, backlog, now_epoch, params)

\* Lines 354-413: the aggregates over last_obs
Aggregates(obs, prev, backlog, now_epoch, params) ==
    AgmtFold([configured_met |-> obs # <<>>, working_met |-> FALSE,
              finished_met |-> obs # <<>>, unhealthy |-> <<>>,
              prev_by_dn |-> prev, facts |-> <<>>],
             obs, 1, backlog, now_epoch, params)

-----------------------------------------------------------------------------
(* Spec: run_module of ds_repl_wait. One step resolves the targets, one    *)
(* step runs a poll cycle up to its decision, one step sleeps. time.time() *)
(* and time.monotonic() advance together and the loop starts at clock 0.   *)

start_ts == 0

\* int(x or dflt) of lines 298-300
OrDefault(x, dflt) == IF IsNil(x) \/ x = Some(0) THEN dflt ELSE Val(x)

TmoGet(params, key) == IF IsNil(params.timeouts) THEN Nil ELSE Some(Val(params.timeouts)[key])

deadline(params) == start_ts + params.timeout
configured_deadline(params) ==
    start_ts + OrDefault(TmoGet(params, "configured"), DefaultConfiguredTimeout)
working_deadline(params) ==
    configured_deadline(params) + OrDefault(TmoGet(params, "start"), DefaultStartTimeout)
done_deadline(params) ==
    working_deadline(params) + OrDefault(TmoGet(params, "done"), DefaultDoneTimeout)

\* req = p.get('require') or {}; use_phases = bool(req). A given require dict
\* carries its three options, so it is never empty.
use_phases(params) == ~IsNil(params.require)

\* p.get('monitor_enabled', True)
MonitorEnabled(params) ==
    IF IsNil(params.monitor_enabled) THEN TRUE ELSE Val(params.monitor_enabled)

\* Line 352, left to right: p['monitor_every'] is subscripted only when
\* monitoring is enabled, the cycle is not the first and
\* int(p.get('monitor_every', 3)) > 0.
MonitorEveryReached(params, c) ==
    /\ MonitorEnabled(params)
    /\ c # 1
    /\ (IF IsNil(params.monitor_every) THEN DefaultMonitorEvery
        ELSE Val(params.monitor_every)) > 0
KeyErrorDue(params, c) == MonitorEveryReached(params, c) /\ IsNil(params.monitor_every)
SampleDue(params, c) ==
    /\ MonitorEnabled(params)
    /\ \/ c = 1
       \/ /\ MonitorEveryReached(params, c)
          /\ ~IsNil(params.monitor_every)
          /\ c % Val(params.monitor_every) = 0

\* _monitor_sample: a sample that could be read replaces backlog_by_name,
\* a failed one leaves it
monitor_sample(sample, old) == IF IsNil(sample) THEN old ELSE Val(sample)

MarkHealthy(obs) == [i \in DOMAIN obs |-> [obs[i] EXCEPT !.status = "healthy"]]

\* A hint is <<dn, text, n>>; dn is <<>> and n is 0 where the text has none.
HintText(reason) ==
    CASE reason = "stale" -> "Last update stale"
      [] reason = "update_code!=0" -> "Replication update failed (code != 0)"
      [] reason = "init_code!=0" -> "Last init failed (code != 0)"
      [] reason = "replica disabled" -> "Replica disabled"
      [] OTHER -> ""
UnhealthyHints(unhealthy) ==
    {<<unhealthy[i][1], HintText(unhealthy[i][2]), 0>> :
        i \in {j \in DOMAIN unhealthy : HintText(unhealthy[j][2]) # ""}}
BacklogHints(backlog) == {<<nm, "backlog=", backlog[nm]>> : nm \in DOMAIN backlog}

NoExit == [outcome |-> "running", reason |-> "", msg |-> "", observations |-> Nil,
           hints |-> Nil, summary |-> Nil, cycles |-> 0, elapsed_s |-> 0]
\* Mutant of FailJson: the report carries no reason
fail_json_without_reason(msg, reason, obs, hs, summary, c, el) ==
    [outcome |-> "failed", reason |-> "", msg |-> msg, observations |-> obs,
     hints |-> hs, summary |-> summary, cycles |-> c, elapsed_s |-> el]
FailJson(msg, reason, obs, hs, summary, c, el) ==
    [outcome |-> "failed", reason |-> reason, msg |-> msg, observations |-> obs,
     hints |-> hs, summary |-> summary, cycles |-> c, elapsed_s |-> el]
ExitJson(obs, summary, c, el) ==
    [outcome |-> "succeeded", reason |-> "", msg |-> "", observations |-> Some(obs),
     hints |-> Nil, summary |-> summary, cycles |-> c, elapsed_s |-> el]
Uncaught(msg, c) ==
    [outcome |-> "crashed", reason |-> "", msg |-> msg, observations |-> Nil,
     hints |-> Nil, summary |-> Nil, cycles |-> c, elapsed_s |-> 0]

\* Mutant of Streak: a failing cycle keeps the streak
streak_kept(passed, old) == IF passed THEN old + 1 ELSE old
\* ok_streak after a cycle (lines 447, 453, 457, 463)
Streak(passed, old) == IF passed THEN old + 1 ELSE 0

\* Mutant of StalledPhase: the working phase is looked at before configured
stalled_phase_working_first(params, agg, t) ==
    LET req == Val(params.require)
    IN IF req.working /\ t > working_deadline(params) /\ ~agg.working_met
       THEN "working"
       ELSE IF req.configured /\ t > configured_deadline(params) /\ ~agg.configured_met
       THEN "configured"
       ELSE IF req.finished /\ t > done_deadline(params) /\ ~agg.finished_met
       THEN "finished"
       ELSE "none"

\* Mutant of StalledPhase: the finished deadline applies whether or not
\* finished is requested
stalled_phase_checks_finished(params, agg, t) ==
    LET req == Val(params.require)
    IN IF req.configured /\ t > configured_deadline(params) /\ ~agg.configured_met
       THEN "configured"
       ELSE IF req.working /\ t > working_deadline(params) /\ ~agg.working_met
       THEN "working"
       ELSE IF t > done_deadline(params) /\ ~agg.finished_met
       THEN "finished"
       ELSE "none"
\* Mutant of StalledPhase: the working phase has no deadline check
stalled_phase_skips_working(params, agg, t) ==
    LET req == Val(params.require)
    IN IF req.configured /\ t > configured_deadline(params) /\ ~agg.configured_met
       THEN "configured"
       ELSE IF req.finished /\ t > done_deadline(params) /\ ~agg.finished_met
       THEN "finished"
       ELSE "none"
\* Lines 432-444: the first requested phase, in the order configured, working,
\* finished, whose predicate is false past its deadline; "none" when there is none
StalledPhase(params, agg, t) ==
    LET req == Val(params.require)
    IN IF req.configured /\ t > configured_deadline(params) /\ ~agg.configured_met
       THEN "configured"
       ELSE IF req.working /\ t > working_deadline(params) /\ ~agg.working_met
       THEN "working"
       ELSE IF req.finished /\ t > done_deadline(params) /\ ~agg.finished_met
       THEN "finished"
       ELSE "none"

\* Lines 426-472: the decision of one cycle. Gives what the cycle leaves:
\* the exit report (NoExit when the loop goes on), ok_streak, hints, last_obs.
Decide(params, obs, agg, backlog, old_streak, old_hints, c, t, el, ndns) ==
    LET summary == Some([configured |-> agg.configured_met, working |-> agg.working_met,
                         finished |-> agg.finished_met])
        req == Val(params.require)
        passed == IF use_phases(params)
                  THEN /\ (~req.configured) \/ agg.configured_met
                       /\ (~req.working) \/ agg.working_met
                       /\ (~req.finished) \/ agg.finished_met
                  ELSE agg.unhealthy = <<>>
        new_streak == Streak(passed, old_streak)
        new_obs == IF passed THEN MarkHealthy(obs) ELSE obs
        verdict == [exit |-> IF passed /\ new_streak >= params.steady_ok_polls
                             THEN ExitJson(new_obs, IF use_phases(params) THEN summary ELSE Nil, c, el)
                             ELSE NoExit,
                    ok_streak |-> new_streak,
                    hints |-> IF use_phases(params) \/ passed THEN old_hints
                              ELSE old_hints \cup UnhealthyHints(agg.unhealthy),
                    last_obs |-> new_obs,
                    passed |-> passed]
        stop(msg, reason, hs, extra) ==
            [exit |-> FailJson(msg, reason, Some(obs), Some(hs \cup {<<<<>>, extra, 0>>}),
                               summary, c, t - start_ts),
             ok_streak |-> old_streak, hints |-> hs, last_obs |-> obs, passed |-> FALSE]
        stalled == IF use_phases(params) THEN StalledPhase(params, agg, t) ELSE "none"
    IN CASE stalled = "configured" ->
                stop("Replication not configured in time", "configured-timeout",
                     old_hints, "Agreement disabled or missing")
         [] stalled = "working" ->
                stop("Replication did not start within timeout", "start-timeout",
                     old_hints, "No activity observed")
         [] stalled = "finished" ->
                stop("Replication did not finish within timeout", "done-timeout",
                     old_hints \cup BacklogHints(backlog), "Not converged")
         [] OTHER -> verdict

\* Mutant of sleep_for: past backoff_after the sleep is backoff_interval
sleep_for_backoff_interval(params, el) ==
    IF el < params.backoff_after THEN params.poll_interval ELSE params.backoff_interval
\* Lines 475-476
sleep_for(params, el) ==
    IF el < params.backoff_after THEN params.poll_interval
    ELSE IF params.poll_interval >= params.backoff_interval THEN params.poll_interval
    ELSE params.backoff_interval

NoVerdicts == [cycle |-> 0, passed |-> FALSE, pass_run |-> 0, configured_met |-> FALSE,
               working_met |-> FALSE, finished_met |-> FALSE, unhealthy |-> <<>>,
               facts |-> <<>>, prev |-> EmptyMap, entries |-> <<>>, now_mono |-> 0,
               sampled |-> FALSE, obs |-> <<>>, sample |-> "none", slept |-> 0]

\* The directory and the provisioning modules while another specification runs
NoDir == [replica |-> FALSE, conf |-> <<>>, agmts |-> EmptyMap]
NoAgreementRun == [params |-> Nil, n |-> 0]
NoEnableRun == [params |-> Nil, n |-> 0]
NoLdapCall == [pc |-> "off"]
NoInitRun == [params |-> Nil]
ToolsOff ==
    /\ ldap_call = NoLdapCall
    /\ init_run = NoInitRun
ProvOff ==
    /\ dir = NoDir
    /\ agmt_run = NoAgreementRun
    /\ enable_run = NoEnableRun
    /\ ToolsOff

\* The wait loop's variables while another specification runs
WaitOff ==
    /\ p = Nil
    /\ wpc = "off"
    /\ target_dns = <<>>
    /\ ok_streak = 0
    /\ cycle = 0
    /\ last_obs = <<>>
    /\ hints = {}
    /\ prev_by_dn = EmptyMap
    /\ backlog_by_name = EmptyMap
    /\ elapsed = 0
    /\ exit = NoExit
    /\ wh = NoVerdicts

-----------------------------------------------------------------------------
(* Spec: the directory contents a cycle may read, and the parameters       *)

MaxSteady == 2          \* largest steady_ok_polls explored
WaitTimeout == 6        \* the overall timeout explored, in seconds

TxtUpdateOk == <<"E", "r", "r", "o", "r", " ", "(", "0", ")", " ", "R", "e", "p", "l", "i", "c", "a", " ", "a", "c", "q", "u", "i", "r", "e", "d", " ", "s", "u", "c", "c", "e", "s", "s", "f", "u", "l", "l", "y">>
TxtUpdateFailed == <<"E", "r", "r", "o", "r", " ", "(", "1", ")", " ", "C", "a", "n", "'", "t", " ", "a", "c", "q", "u", "i", "r", "e", " ", "r", "e", "p", "l", "i", "c", "a">>
TxtInitOk == <<"E", "r", "r", "o", "r", " ", "(", "0", ")", " ", "T", "o", "t", "a", "l", " ", "u", "p", "d", "a", "t", "e", " ", "s", "u", "c", "c", "e", "e", "d", "e", "d">>
TxtInitFailed == <<"E", "r", "r", "o", "r", " ", "(", "-", "2", ")", " ", "T", "o", "t", "a", "l", " ", "u", "p", "d", "a", "t", "e", " ", "a", "b", "o", "r", "t", "e", "d">>
TxtOn == <<"o", "n">>
TxtOff == <<"o", "f", "f">>
TxtTrue == <<"T", "R", "U", "E">>
TxtFalse == <<"F", "A", "L", "S", "E">>

ReplicaDn == <<"r">>
\* f"cn={cnv},{replica_dn}" of line 280
AgmtDn(cnv) == <<"c", "n", "=">> \o cnv \o <<",">> \o ReplicaDn
Cn1 == <<"a", "1">>
Cn2 == <<"a", "2">>

Gtz(epoch) == [gtz |-> TRUE, epoch |-> epoch]
NotGtz == [gtz |-> FALSE, epoch |-> 0]

Entry(enabled, init_status, upd_status, upd_start, upd_end, busy) ==
    [found |-> TRUE, enabled |-> enabled, init_status |-> init_status,
     upd_status |-> upd_status, upd_start |-> upd_start, upd_end |-> upd_end,
     busy |-> busy]
\* search_one raised: the agreement cannot be read
EntMissing == [found |-> FALSE, enabled |-> Nil, init_status |-> Nil, upd_status |-> Nil,
               upd_start |-> Nil, upd_end |-> Nil, busy |-> Nil]
\* enabled, never initialised or updated
EntIdle == Entry(Some(TxtOn), Nil, Nil, Nil, Nil, Nil)
\* enabled, last update succeeded at second t
EntOk(t) == Entry(Some(TxtOn), Some(TxtInitOk), Some(TxtUpdateOk),
                  Some(Gtz(t)), Some(Gtz(t)), Some(TxtFalse))
\* enabled, an update is running, the last one ended two seconds before t
EntBusy(t) == Entry(Some(TxtOn), Some(TxtInitOk), Some(TxtUpdateOk),
                    Some(Gtz(t)), Some(Gtz(t - 2)), Some(TxtTrue))
\* enabled, last update failed and its end time is not a generalized time
EntFailed == Entry(Some(TxtOn), Some(TxtInitOk), Some(TxtUpdateFailed),
                   Nil, Some(NotGtz), Some(TxtFalse))

EntryKinds(t) == {EntMissing, EntIdle, EntOk(t), EntBusy(t), EntFailed}
OtherKinds(t) == {EntOk(t), EntFailed}

RepOn == [found |-> TRUE, enabled |-> Some(TxtOn)]
RepOff == [found |-> TRUE, enabled |-> Some(TxtOff)]
RepUnreadable == [found |-> FALSE, enabled |-> Nil]

\* What one call of _observations may find for the targets dns at second t
Scenes(dns, t) ==
    {[rep |-> RepOn, entries |-> es] :
        es \in {f \in [1..Len(dns) -> EntryKinds(t)] :
                   \A i \in 2..Len(dns) : f[i] \in OtherKinds(t)}}
    \cup {[rep |-> r, entries |-> [i \in 1..Len(dns) |-> EntOk(t)]] :
            r \in {RepOff, RepUnreadable}}

\* Seconds _observations and the backlog sample take
ObsDurations == {0, 1}

\* What _monitor_sample may read: nothing (both URLs fail), or a mapping
Samples == {Nil, Some(EmptyMap), Some([n \in {Cn1} |-> 0]), Some([n \in {Cn1} |-> 1])}

\* What the search of line 270 may give: an exception, or entries with their cn
Discoveries == {Nil, Some(<<>>), Some(<<Some(Cn1)>>), Some(<<Nil, Some(Cn1)>>)}

Req(c, w, f) == Some([configured |-> c, working |-> w, finished |-> f])
Tmo(c, s, d) == Some([configured |-> c, start |-> s, done |-> d])

\* require and timeouts as given together; a timeout may be given as 0
Modes == {<<Nil, Nil>>,
          <<Req(TRUE, TRUE, FALSE), Tmo(1, 1, 1)>>,
          <<Req(TRUE, TRUE, TRUE), Tmo(1, 1, 1)>>,
          <<Req(TRUE, TRUE, TRUE), Tmo(0, 1, 1)>>,
          <<Req(TRUE, TRUE, TRUE), Nil>>,
          <<Req(FALSE, FALSE, FALSE), Nil>>}

\* monitor_enabled and monitor_every: argument_spec does not declare them, so
\* module.params carries them only when the caller's runtime supplies them
Monitors == {<<Nil, Nil>>, <<Some(FALSE), Nil>>, <<Some(TRUE), Some(2)>>}

\* agreements and all
Targets == {<<Some(<<AgmtDn(Cn1)>>), FALSE>>, <<Some(<<AgmtDn(Cn1), AgmtDn(Cn2)>>), FALSE>>,
            <<Nil, TRUE>>, <<Nil, FALSE>>}

Params ==
    {[agreements |-> tg[1], all |-> tg[2], stale_seconds |-> 1, steady_ok_polls |-> s,
      poll_interval |-> 2, timeout |-> WaitTimeout, require_init_success |-> TRUE,
      require |-> md[1], timeouts |-> md[2], backoff_after |-> 4, backoff_interval |-> 3,
      monitor_enabled |-> mo[1], monitor_every |-> mo[2]] :
        tg \in Targets, s \in 1..MaxSteady, md \in Modes, mo \in Monitors}

InitWait ==
    /\ p \in Params
    /\ wpc = "start"
    /\ target_dns = <<>>
    /\ ok_streak = 0
    /\ cycle = 0
    /\ last_obs = <<>>
    /\ hints = {}
    /\ prev_by_dn = EmptyMap
    /\ backlog_by_name = EmptyMap
    /\ elapsed = 0
    /\ exit = NoExit
    /\ wh = NoVerdicts
    /\ now = start_ts
    /\ cb = CircuitBreakerInit(DefaultThreshold, DefaultCooldown)
    /\ can_ret = "none"
    /\ streak = 0
    /\ last_call = "init"
    /\ ar = NoRetry
    /\ call = NoCall
    /\ rh = NoHistory
    /\ ProvOff

otherVars == <<cb, can_ret, streak, last_call, ar, call, rh, provVars>>

\* target_dns built from the discovered entries (lines 276-280)
RECURSIVE DiscoveredDns(_)
DiscoveredDns(ents) ==
    IF ents = <<>> THEN <<>>
    ELSE (IF IsNil(Head(ents)) \/ Head(ents) = Some(<<>>) THEN <<>>
          ELSE <<AgmtDn(Val(Head(ents)))>>) \o DiscoveredDns(Tail(ents))

\* Lines 265-282: the targets
WResolve ==
    /\ wpc = "start"
    /\ IF ~IsNil(p.agreements) /\ Val(p.agreements) # <<>>
       THEN /\ target_dns' = Val(p.agreements)
            /\ wpc' = "loop"
            /\ exit' = exit
       ELSE IF p.all
       THEN /\ \E found \in Discoveries :
                target_dns' = DiscoveredDns(IF IsNil(found) THEN <<>> ELSE Val(found))
            /\ wpc' = "loop"
            /\ exit' = exit
       ELSE /\ target_dns' = target_dns
            /\ wpc' = "done"
            /\ exit' = FailJson("Specify 'agreements' list or set 'all: true'", "",
                                Nil, Nil, Nil, 0, 0)
    /\ UNCHANGED <<p, ok_streak, cycle, last_obs, hints, prev_by_dn, backlog_by_name,
                   elapsed, wh, now, otherVars>>

\* Lines 348-472: one pass of the loop body up to its decision, the directory
\* showing one of scenes. The history keeps what trace names: with "locals"
\* the loop's per-agreement locals, the trend values the cycle started from,
\* the entries read and the observations as _observations returned them;
\* with "sample" how the latest backlog sampling attempt ended.
CycleStep(scenes, trace) ==
    /\ wpc = "loop"
    /\ now < deadline(p)
    /\ ~KeyErrorDue(p, cycle + 1)
    /\ \E d \in ObsDurations, sc \in scenes, smp \in Samples :
        /\ SampleDue(p, cycle + 1) \/ smp = Nil
        /\ LET c == cycle + 1
               t == now + d
               el == t - start_ts
           IN \E obs \in {observations(sc.rep, sc.entries, target_dns, now)},
                 bl \in {IF SampleDue(p, c) THEN monitor_sample(smp, backlog_by_name)
                         ELSE backlog_by_name} :
              \E agg \in {Aggregates(obs, prev_by_dn, bl, t, p)} :
              \E v \in {Decide(p, obs, agg, bl, ok_streak, hints, c, t, el,
                               Len(target_dns))} :
              /\ cycle' = c
              /\ now' = t
              /\ backlog_by_name' = bl
              /\ prev_by_dn' = agg.prev_by_dn
              /\ elapsed' = el
              /\ last_obs' = v.last_obs
              /\ ok_streak' = v.ok_streak
              /\ hints' = v.hints
              /\ exit' = v.exit
              /\ wpc' = IF v.exit = NoExit THEN "sleep" ELSE "done"
              /\ wh' = [cycle |-> c, passed |-> v.passed,
                        pass_run |-> IF v.passed THEN wh.pass_run + 1 ELSE 0,
                        configured_met |-> agg.configured_met,
                        working_met |-> agg.working_met,
                        finished_met |-> agg.finished_met,
                        unhealthy |-> agg.unhealthy,
                        facts |-> IF "locals" \in trace THEN agg.facts ELSE <<>>,
                        prev |-> IF "locals" \in trace THEN prev_by_dn ELSE EmptyMap,
                        entries |-> IF "locals" \in trace THEN sc.entries ELSE <<>>,
                        now_mono |-> t, sampled |-> SampleDue(p, c),
                        obs |-> IF "locals" \in trace THEN obs ELSE <<>>,
                        sample |-> IF "sample" \notin trace THEN "none"
                                   ELSE IF ~SampleDue(p, c) THEN wh.sample
                                   ELSE IF IsNil(smp) THEN "failed" ELSE "ok",
                        slept |-> wh.slept]
    /\ UNCHANGED <<p, target_dns, otherVars>>

WCycle == CycleStep(Scenes(target_dns, now), {})

\* Line 352 when p['monitor_every'] is subscripted and the key is absent:
\* KeyError leaves run_module after the cycle's observations were read
KeyErrorStep(scenes) ==
    /\ wpc = "loop"
    /\ now < deadline(p)
    /\ KeyErrorDue(p, cycle + 1)
    /\ \E d \in ObsDurations, sc \in scenes :
        /\ cycle' = cycle + 1
        /\ last_obs' = observations(sc.rep, sc.entries, target_dns, now)
        /\ now' = now + d
    /\ exit' = Uncaught("KeyError: 'monitor_every'", cycle + 1)
    /\ wpc' = "done"
    /\ UNCHANGED <<p, target_dns, ok_streak, hints, prev_by_dn, backlog_by_name,
                   elapsed, wh, otherVars>>

WKeyError == KeyErrorStep(Scenes(target_dns, now))

\* Lines 479-480: the loop condition fails
WTimeout ==
    /\ wpc = "loop"
    /\ ~(now < deadline(p))
    /\ exit' = FailJson("Agreements not healthy within timeout", "timeout",
                        Some(last_obs), Some(hints), Nil, cycle, now - start_ts)
    /\ wpc' = "done"
    /\ UNCHANGED <<p, target_dns, ok_streak, cycle, last_obs, hints, prev_by_dn,
                   backlog_by_name, elapsed, wh, now, otherVars>>

\* Lines 475-477: time.sleep(sleep_for)
WSleep ==
    /\ wpc = "sleep"
    /\ now' = now + sleep_for(p, elapsed)
    /\ wpc' = "loop"
    /\ wh' = [wh EXCEPT !.slept = sleep_for(p, elapsed)]
    /\ UNCHANGED <<p, target_dns, ok_streak, cycle, last_obs, hints, prev_by_dn,
                   backlog_by_name, elapsed, exit, otherVars>>

Next == WResolve \/ WCycle \/ WKeyError \/ WTimeout \/ WSleep

Spec == InitWait /\ [][Next]_vars

-----------------------------------------------------------------------------
(* SpecCycle: run_module again, over two cycles per invocation             *)
(* (poll_interval is one second short of the timeout), the second cycle    *)
(* reading an agreement entry with any combination of the attribute values *)
(* below. The parameters carry monitor_every, so line 352 raises nothing.  *)

TxtUpdateOkNoCode == <<"R", "e", "p", "l", "i", "c", "a", " ", "a", "c", "q", "u", "i", "r", "e", "d", " ", "s", "u", "c", "c", "e", "s", "s", "f", "u", "l", "l", "y">>

\* enabled, last update succeeded two seconds before t
EntOld(t) == Entry(Some(TxtOn), Some(TxtInitOk), Some(TxtUpdateOk),
                   Some(Gtz(t - 2)), Some(Gtz(t - 2)), Some(TxtFalse))

FirstKinds(t) == {EntMissing, EntOk(t), EntOld(t)}

\* Values of the update attributes read at second t. An end time of t - 1 gives
\* an age of stale_seconds (1 in WideParams); -2 is the end time EntOld has in
\* a first cycle that starts at second 0.
UpdStatusValues == {Nil, Some(TxtUpdateOk), Some(TxtUpdateFailed), Some(TxtUpdateOkNoCode)}
UpdEndValues(t) == {Some(NotGtz), Some(Gtz(t)), Some(Gtz(t - 1)), Some(Gtz(t - 2)), Some(Gtz(-2))}
UpdStartValues(t) == {Nil, Some(Gtz(t))}
InitStatusValues == {Nil, Some(TxtInitOk), Some(TxtInitFailed)}
BusyValues == {Nil, Some(TxtTrue), Some(TxtFalse)}

WideKinds(t) ==
    {Entry(Some(TxtOn), ins, us, st, ue, bu) :
        ins \in InitStatusValues, us \in UpdStatusValues, st \in UpdStartValues(t),
        ue \in UpdEndValues(t), bu \in BusyValues}
    \cup {Entry(en, Some(TxtInitOk), Some(TxtUpdateOk), Some(Gtz(t)), Some(Gtz(t)),
                Some(TxtFalse)) : en \in {Nil, Some(TxtOff)}}
    \cup {EntMissing}

\* What _observations may find in cycle c at second t
WideScenes(dns, t, c) ==
    LET kinds == IF c = 1 THEN FirstKinds(t) ELSE WideKinds(t)
    IN {[rep |-> RepOn, entries |-> es] :
           es \in {f \in [1..Len(dns) -> kinds \cup {EntIdle}] :
                      /\ Len(dns) >= 1 => f[1] \in kinds
                      /\ \A i \in 2..Len(dns) : f[i] \in {EntOk(t), EntIdle}}}
       \cup {[rep |-> r, entries |-> [i \in 1..Len(dns) |-> EntIdle]] :
               r \in {RepOff, RepUnreadable}}
       \cup {[rep |-> RepUnreadable, entries |-> [i \in 1..Len(dns) |-> EntMissing]]}

WideParam(agreements, require, ris) ==
    [agreements |-> Some(agreements), all |-> FALSE, stale_seconds |-> 1,
     steady_ok_polls |-> MaxSteady, poll_interval |-> WaitTimeout - 1,
     timeout |-> WaitTimeout, require_init_success |-> ris,
     require |-> require, timeouts |-> Nil, backoff_after |-> 4, backoff_interval |-> 3,
     monitor_enabled |-> Some(TRUE), monitor_every |-> Some(DefaultMonitorEvery)]

WideParams ==
    {WideParam(<<AgmtDn(Cn1)>>, Req(TRUE, TRUE, TRUE), TRUE),
     WideParam(<<AgmtDn(Cn1)>>, Req(TRUE, TRUE, TRUE), FALSE),
     WideParam(<<AgmtDn(Cn1), AgmtDn(Cn2)>>, Req(TRUE, TRUE, TRUE), TRUE),
     WideParam(<<AgmtDn(Cn1)>>, Nil, TRUE)}

InitCycle ==
    /\ p \in WideParams
    /\ wpc = "start"
    /\ target_dns = <<>>
    /\ ok_streak = 0
    /\ cycle = 0
    /\ last_obs = <<>>
    /\ hints = {}
    /\ prev_by_dn = EmptyMap
    /\ backlog_by_name = EmptyMap
    /\ elapsed = 0
    /\ exit = NoExit
    /\ wh = NoVerdicts
    /\ now = start_ts
    /\ cb = CircuitBreakerInit(DefaultThreshold, DefaultCooldown)
    /\ can_ret = "none"
    /\ streak = 0
    /\ last_call = "init"
    /\ ar = NoRetry
    /\ call = NoCall
    /\ rh = NoHistory
    /\ ProvOff

WCycleWide == CycleStep(WideScenes(target_dns, now, cycle + 1), {"locals"})

NextCycle == WResolve \/ WCycleWide \/ WTimeout \/ WSleep

SpecCycle == InitCycle /\ [][NextCycle]_vars

-----------------------------------------------------------------------------
(* SpecPace: run_module again, from the parameters as the caller gives     *)
(* them, an unset one taking the default of argument_spec; runs of up to   *)
(* MaxCycles cycles over one agreement, with several poll and backoff      *)
(* intervals and sampling periods.                                         *)

MaxCycles == 6          \* most cycles explored in one invocation

\* The defaults of argument_spec (lines 230-239)
DefaultAll == FALSE
DefaultStaleSeconds == 60
DefaultSteadyOkPolls == 2
DefaultPollInterval == 3
DefaultTimeout == 180
DefaultRequireInitSuccess == TRUE
DefaultBackoffAfter == 30
DefaultBackoffInterval == 5

ArgDefault(x, dflt) == IF IsNil(x) THEN dflt ELSE Val(x)

\* module.params for what the caller gave: AnsibleModule fills in the
\* defaults of argument_spec; agreements, require and timeouts have none, and
\* the monitor keys are not declared
ModuleParams(given) ==
    [agreements |-> given.agreements,
     all |-> ArgDefault(given.all, DefaultAll),
     stale_seconds |-> ArgDefault(given.stale_seconds, DefaultStaleSeconds),
     steady_ok_polls |-> ArgDefault(given.steady_ok_polls, DefaultSteadyOkPolls),
     poll_interval |-> ArgDefault(given.poll_interval, DefaultPollInterval),
     timeout |-> ArgDefault(given.timeout, DefaultTimeout),
     require_init_success |-> ArgDefault(given.require_init_success, DefaultRequireInitSuccess),
     require |-> given.require,
     timeouts |-> given.timeouts,
     backoff_after |-> ArgDefault(given.backoff_after, DefaultBackoffAfter),
     backoff_interval |-> ArgDefault(given.backoff_interval, DefaultBackoffInterval),
     monitor_enabled |-> given.monitor_enabled,
     monitor_every |-> given.monitor_every]

\* The caller names the agreements and nothing else
NoneGiven(agreements) ==
    [agreements |-> Some(agreements), all |-> Nil, stale_seconds |-> Nil,
     steady_ok_polls |-> Nil, poll_interval |-> Nil, timeout |-> Nil,
     require_init_success |-> Nil, require |-> Nil, timeouts |-> Nil,
     backoff_after |-> Nil, backoff_interval |-> Nil, monitor_enabled |-> Nil,
     monitor_every |-> Nil]

\* (poll_interval, backoff_after, backoff_interval)
Paces == {<<1, 2, 3>>, <<2, 2, 1>>, <<2, 4, 3>>, <<1, 0, 2>>}

PaceGiven ==
    {NoneGiven(<<AgmtDn(Cn1)>>),
     [NoneGiven(<<AgmtDn(Cn1)>>) EXCEPT !.monitor_enabled = Some(TRUE),
                                        !.monitor_every = Some(DefaultMonitorEvery)]}
    \cup {[NoneGiven(<<AgmtDn(Cn1)>>) EXCEPT
              !.stale_seconds = Some(1), !.timeout = Some(WaitTimeout),
              !.poll_interval = Some(pc[1]), !.backoff_after = Some(pc[2]),
              !.backoff_interval = Some(pc[3]), !.require = rq,
              !.monitor_enabled = Some(TRUE), !.monitor_every = Some(me)] :
            pc \in Paces, rq \in {Nil, Req(TRUE, TRUE, TRUE)}, me \in {1, 2}}

\* What _observations may find: the agreement updated just now, or failed
PaceScenes(dns, t) ==
    {[rep |-> RepOn, entries |-> es] : es \in [1..Len(dns) -> {EntOk(t), EntFailed}]}

InitPace ==
    /\ p \in {ModuleParams(given) : given \in PaceGiven}
    /\ wpc = "start"
    /\ target_dns = <<>>
    /\ ok_streak = 0
    /\ cycle = 0
    /\ last_obs = <<>>
    /\ hints = {}
    /\ prev_by_dn = EmptyMap
    /\ backlog_by_name = EmptyMap
    /\ elapsed = 0
    /\ exit = NoExit
    /\ wh = NoVerdicts
    /\ now = start_ts
    /\ cb = CircuitBreakerInit(DefaultThreshold, DefaultCooldown)
    /\ can_ret = "none"
    /\ streak = 0
    /\ last_call = "init"
    /\ ar = NoRetry
    /\ call = NoCall
    /\ rh = NoHistory
    /\ ProvOff

WCyclePace ==
    /\ cycle < MaxCycles
    /\ CycleStep(PaceScenes(target_dns, now), {"sample"})

WKeyErrorPace ==
    /\ cycle < MaxCycles
    /\ KeyErrorStep(PaceScenes(target_dns, now))

NextPace == WResolve \/ WCyclePace \/ WKeyErrorPace \/ WTimeout \/ WSleep

SpecPace == InitPace /\ [][NextPace]_vars

-----------------------------------------------------------------------------
(* SpecRetry: execute_with_retry calls, one after another, on one          *)
(* AdaptiveRetry instance; the clock advances in time.sleep and between    *)
(* calls.                                                                  *)

\* (base_delay, max_delay, backoff_multiplier): the documented example, and
\* delays long enough for the breaker's cooldown to elapse inside one call
DelayConfigs == { << <<2, 1>>, <<10, 1>>, <<3, 2>> >>, << <<40, 1>>, <<100, 1>>, <<3, 2>> >> }

RetryConfigs ==
    {RetryConfig(mr, dc[1], dc[2], dc[3], j, th) :
        mr \in (-1)..MaxRetries, dc \in DelayConfigs, j \in BOOLEAN, th \in 1..MaxThreshold}

RetryClockCap == 4 * DefaultCooldown

InitRetry ==
    /\ \E c \in RetryConfigs :
        /\ ar = AdaptiveRetryInit(c)
        /\ cb = CircuitBreakerInit(c.circuit_breaker_threshold, DefaultCooldown)
    /\ now = 0
    /\ can_ret = "none"
    /\ streak = 0
    /\ last_call = "init"
    /\ call = NoCall
    /\ rh = NoHistory
    /\ WaitOff
    /\ ProvOff

\* Time passes between two calls (explored while the breaker is OPEN and its
\* cooldown has not elapsed: can_execute reads the clock in no other case)
RIdleTick ==
    /\ call.pc = "idle"
    /\ cb.state = "OPEN"
    /\ now - cb.last_failure_time <= cb.timeout
    /\ \E d \in ClockSteps : now + d <= RetryClockCap /\ now' = now + d
    /\ last_call' = "none"
    /\ UNCHANGED <<cb, can_ret, streak, retryVars, waitVars, provVars>>

\* execute_with_retry is entered: last_exception = None, the loop starts
RCall ==
    /\ call.pc = "idle"
    /\ rh.calls < MaxCalls
    /\ call' = [pc |-> "attempt", attempt |-> 0, last_exception |-> None, delay |-> <<0, 1>>]
    /\ rh' = [NoHistory EXCEPT !.calls = rh.calls + 1, !.began = cb.failure_count]
    /\ last_call' = "none"
    /\ UNCHANGED <<cb, now, can_ret, streak, ar>>
    /\ UNCHANGED <<waitVars, provVars>>

Raise(e) == [kind |-> "raised", exc |-> e]

\* Mutant of InRange: the loop runs one more time
in_range_one_more(attempt, config) == attempt <= config.max_retries + 1
\* `for attempt in range(self.config.max_retries + 1)`: attempt is in the range
InRange(attempt, config) == attempt <= config.max_retries

\* range(max_retries + 1) is exhausted without a break: raise last_exception
RExhausted ==
    /\ call.pc = "attempt"
    /\ ~InRange(call.attempt, ar.config)
    /\ call' = NoCall
    /\ rh' = [rh EXCEPT !.outcome = "exhausted",
                        !.result = Raise(IF call.last_exception = None
                                         THEN RaiseNoneError ELSE call.last_exception)]
    /\ last_call' = "none"
    /\ UNCHANGED <<cb, now, can_ret, streak, ar>>
    /\ UNCHANGED <<waitVars, provVars>>

\* can_execute returns False: line 110 raises, the operation is not invoked
RRefused ==
    /\ call.pc = "attempt"
    /\ InRange(call.attempt, ar.config)
    /\ ~can_execute(cb, now).ret
    /\ cb' = can_execute(cb, now).cb
    /\ can_ret' = "false"
    /\ last_call' = "can_execute"
    /\ call' = NoCall
    /\ rh' = [rh EXCEPT !.outcome = "refused", !.result = Raise(BreakerRefusedError)]
    /\ UNCHANGED <<now, streak, ar>>
    /\ UNCHANGED <<waitVars, provVars>>

\* can_execute returns True: the operation is about to be invoked
RGate ==
    /\ call.pc = "attempt"
    /\ InRange(call.attempt, ar.config)
    /\ can_execute(cb, now).ret
    /\ cb' = can_execute(cb, now).cb
    /\ can_ret' = "true"
    /\ last_call' = "can_execute"
    /\ call' = [call EXCEPT !.pc = "invoke"]
    /\ UNCHANGED <<now, streak, ar, rh>>
    /\ UNCHANGED <<waitVars, provVars>>

\* The operation is invoked and returns
RSucceed ==
    /\ call.pc = "invoke"
    /\ cb' = record_success(cb)
    /\ streak' = 0
    /\ last_call' = "record_success"
    /\ ar' = [ar EXCEPT !.retry_count = 0]
    /\ call' = NoCall
    /\ rh' = [rh EXCEPT !.invoked = rh.invoked + 1, !.outcome = "ok",
                        !.result = [kind |-> "returned", exc |-> None]]
    /\ UNCHANGED <<now, can_ret>>
    /\ UNCHANGED <<waitVars, provVars>>

\* The operation is invoked and raises e; the loop breaks and e is raised
RFailStop ==
    /\ call.pc = "invoke"
    /\ cb.failure_count < MaxFailures
    /\ \E e \in OpErrors :
        /\ ~should_retry(e) \/ call.attempt = ar.config.max_retries
        /\ call' = NoCall
        /\ rh' = [rh EXCEPT !.invoked = rh.invoked + 1, !.outcome = "raised",
                            !.error = e, !.result = Raise(e)]
    /\ cb' = record_failure(cb, now)
    /\ streak' = streak + 1
    /\ last_call' = "record_failure"
    /\ UNCHANGED <<now, can_ret, ar>>
    /\ UNCHANGED <<waitVars, provVars>>

\* The operation is invoked and raises e; the delay is computed and the
\* call goes to sleep
RFailRetry ==
    /\ call.pc = "invoke"
    /\ cb.failure_count < MaxFailures
    /\ \E e \in OpErrors, f \in JitterFactors :
        /\ ~(~should_retry(e) \/ call.attempt = ar.config.max_retries)
        /\ ar.config.jitter \/ f = <<1, 2>>    \* without jitter no factor is drawn
        /\ ar' = calculate_delay(ar, f).ar
        /\ call' = [call EXCEPT !.pc = "sleeping", !.last_exception = e,
                                !.delay = calculate_delay(ar, f).delay]
        /\ rh' = [rh EXCEPT !.invoked = rh.invoked + 1, !.outcome = "raised",
                            !.error = e,
                            !.delays = Append(rh.delays, calculate_delay(ar, f).delay)]
    /\ cb' = record_failure(cb, now)
    /\ streak' = streak + 1
    /\ last_call' = "record_failure"
    /\ UNCHANGED <<now, can_ret>>
    /\ UNCHANGED <<waitVars, provVars>>

\* time.sleep(delay) ends (on a whole second), retry_count += 1, next attempt
RSleep ==
    /\ call.pc = "sleeping"
    /\ now' = now + QCeil(call.delay)
    /\ ar' = [ar EXCEPT !.retry_count = ar.retry_count + 1]
    /\ call' = [call EXCEPT !.pc = "attempt", !.attempt = call.attempt + 1]
    /\ rh' = [rh EXCEPT !.slept = rh.slept + 1]
    /\ last_call' = "none"
    /\ UNCHANGED <<cb, can_ret, streak>>
    /\ UNCHANGED <<waitVars, provVars>>

NextRetry ==
    \/ RIdleTick \/ RCall \/ RExhausted \/ RRefused \/ RGate
    \/ RSucceed \/ RFailStop \/ RFailRetry \/ RSleep

SpecRetry == InitRetry /\ [][NextRetry]_vars

-----------------------------------------------------------------------------
(* SpecBreaker: any sequence of calls on one CircuitBreaker, the clock     *)
(* advancing between calls.                                                *)

BreakerConfigs ==
    {<<th, SmallCooldown>> : th \in 1..MaxThreshold}
        \cup {<<DefaultThreshold, DefaultCooldown>>}

ClockCap == IF cb.timeout = DefaultCooldown THEN 2 * DefaultCooldown + 2 ELSE MaxClock

InitBreaker ==
    /\ \E c \in BreakerConfigs : cb = CircuitBreakerInit(c[1], c[2])
    /\ now = 0
    /\ can_ret = "none"
    /\ streak = 0
    /\ last_call = "init"
    /\ ar = NoRetry
    /\ call = NoCall
    /\ rh = NoHistory
    /\ WaitOff
    /\ ProvOff

BTick ==
    /\ \E d \in ClockSteps : d > 0 /\ now + d <= ClockCap /\ now' = now + d
    /\ last_call' = "none"
    /\ UNCHANGED <<cb, can_ret, streak, retryVars, waitVars, provVars>>

BCanExecute ==
    /\ cb' = can_execute(cb, now).cb
    /\ can_ret' = IF can_execute(cb, now).ret THEN "true" ELSE "false"
    /\ last_call' = "can_execute"
    /\ UNCHANGED <<now, streak, retryVars, waitVars, provVars>>

BRecordSuccess ==
    /\ cb' = record_success(cb)
    /\ streak' = 0
    /\ last_call' = "record_success"
    /\ UNCHANGED <<now, can_ret, retryVars, waitVars, provVars>>

BRecordFailure ==
    /\ cb.failure_count < MaxFailures
    /\ cb' = record_failure(cb, now)
    /\ streak' = streak + 1
    /\ last_call' = "record_failure"
    /\ UNCHANGED <<now, can_ret, retryVars, waitVars, provVars>>

NextBreaker == BTick \/ BCanExecute \/ BRecordSuccess \/ BRecordFailure

SpecBreaker == InitBreaker /\ [][NextBreaker]_vars

-----------------------------------------------------------------------------
(* SpecAgreement: ds_repl_agreement run again and again with the same      *)
(* parameters on a directory that nothing else changes. One step is one    *)
(* run of run_module. Attributes are single-valued; an agreement entry is  *)
(* kept under its cn.                                                      *)

MaxRuns == 3            \* most runs of one module explored on one directory

SuffixDn == "dc=example,dc=com"

\* str() of the integers the parameters take
IntStr(n) ==
    CASE n = 1 -> "1" [] n = 3 -> "3" [] n = 4 -> "4" [] n = 49 -> "49"
      [] n = 389 -> "389" [] n = 636 -> "636"

\* f"agmt to {host}:{port}"
AgmtLabel(host, port) == <<"agmt to ", host, ":", IntStr(port)>>

transport_map(transport) ==
    CASE transport = "LDAPS" -> "SSL"
      [] transport = "StartTLS" -> "TLS"
      [] transport = "LDAP" -> "LDAP"
      [] OTHER -> "LDAP"

\* dict.update: the values of over replace those of base
Merge(over, base) ==
    [k \in DOMAIN over \cup DOMAIN base |-> IF k \in DOMAIN over THEN over[k] ELSE base[k]]

One(k, v) == [x \in {k} |-> v]

\* `not x` is false for a string parameter that is given and not empty
Truthy(x) == ~IsNil(x) /\ Val(x) # ""

\* The attributes the two searches ask for (lines 173-176 and 184-187)
SearchAttrs ==
    {"cn", "nsds5ReplicaHost", "nsds5ReplicaPort", "nsds5ReplicaBindDN",
     "nsds5ReplicaEnabled", "nsds5ReplicaTransportInfo", "nsds5ReplicaBackoffMin",
     "nsds5ReplicaBackoffMax", "nsds5ReplicaPurgeDelay", "nsds5ReplicaBindMethod"}

\* Lines 198-218
target_attrs(q) ==
    LET base == [k \in {"nsds5ReplicaHost", "nsds5ReplicaPort", "nsds5ReplicaTransportInfo",
                        "nsds5ReplicaRoot", "description"} |->
                    CASE k = "nsds5ReplicaHost" -> q.consumer_host
                      [] k = "nsds5ReplicaPort" -> IntStr(q.consumer_port)
                      [] k = "nsds5ReplicaTransportInfo" -> transport_map(q.transport)
                      [] k = "nsds5ReplicaRoot" -> q.suffix
                      [] k = "description" -> AgmtLabel(q.consumer_host, q.consumer_port)]
        bind == IF q.bind_method = "simple" /\ Truthy(q.bind_dn)
                THEN Merge(IF Truthy(q.bind_pw)
                           THEN One("nsds5ReplicaCredentials", Val(q.bind_pw)) ELSE EmptyMap,
                           Merge(One("nsds5ReplicaBindDN", Val(q.bind_dn)),
                                 One("nsds5ReplicaBindMethod", "SIMPLE")))
                ELSE IF q.bind_method = "sslclientauth"
                THEN One("nsds5ReplicaBindMethod", "SSLCLIENTAUTH")
                ELSE EmptyMap
        opt(key, x) == IF IsNil(x) THEN EmptyMap ELSE One(key, IntStr(Val(x)))
    IN Merge(opt("nsds5ReplicaPurgeDelay", q.purge_delay),
             Merge(opt("nsds5ReplicaBackoffMax", q.backoff_max),
                   Merge(opt("nsds5ReplicaBackoffMin", q.backoff_min),
                         Merge(bind, base))))

\* The entries of a search result, in the order the server gives them
RECURSIVE SeqOf(_)
SeqOf(S) ==
    IF S = {} THEN <<>>
    ELSE LET x == CHOOSE y \in S : TRUE IN <<x>> \o SeqOf(S \ {x})

\* client.search under the replica: the matching agreements, each with those
\* of the requested attributes that it has
SearchResult(d, cns) ==
    SeqOf({[dn |-> cn,
            attrs |-> [k \in DOMAIN d.agmts[cn] \cap SearchAttrs |-> d.agmts[cn][k]]] :
              cn \in cns})
\* (&(objectClass=nsDS5ReplicationAgreement)(cn=name))
ByName(d, name) == {cn \in DOMAIN d.agmts : Get(d.agmts[cn], "cn") = Some(name)}
\* (&(objectClass=nsDS5ReplicationAgreement)(nsds5ReplicaHost=h)(nsds5ReplicaPort=port))
ByHostPort(d, host, port) ==
    {cn \in DOMAIN d.agmts :
        /\ Get(d.agmts[cn], "nsds5ReplicaHost") = Some(host)
        /\ Get(d.agmts[cn], "nsds5ReplicaPort") = Some(IntStr(port))}

\* Lines 255-265: the replace operations that bring the entry found to the target
agreement_changes(cur, target) ==
    LET differ == {k \in DOMAIN target : k \notin DOMAIN cur \/ cur[k] # target[k]}
        cur_enabled == Get(cur, "nsds5ReplicaEnabled")
        enable == IF IsNil(cur_enabled) \/ StrLower(Val(cur_enabled)) \notin TruthyWords
                  THEN One("nsds5ReplicaEnabled", TxtOn) ELSE EmptyMap
    IN Merge(enable, [k \in differ |-> target[k]])

NoAgResult == [outcome |-> "none", changed |-> FALSE, agreement_dn |-> Nil, msg |-> ""]

\* What can go wrong in a run: nothing, the searches, or one of the operations
Faults == {"none", "search", "add", "modify", "delete"}

\* run_module of ds_repl_agreement on the directory d: the directory it
\* leaves, the operations it issued, and what exit_json / fail_json reported
agreement_run(q, d, fault) ==
    LET fail(msg, ops, d2) ==
            [dir |-> d2, ops |-> ops,
             result |-> [outcome |-> "failed", changed |-> FALSE, agreement_dn |-> Nil,
                         msg |-> msg]]
        done(changed, dn, ops, d2) ==
            [dir |-> d2, ops |-> ops,
             result |-> [outcome |-> "ok", changed |-> changed, agreement_dn |-> dn,
                         msg |-> ""]]
        by_name == IF Truthy(q.name) /\ fault # "search"
                   THEN SearchResult(d, ByName(d, Val(q.name))) ELSE <<>>
        existing == IF by_name # <<>> THEN by_name
                    ELSE IF fault # "search"
                    THEN SearchResult(d, ByHostPort(d, q.consumer_host, q.consumer_port))
                    ELSE <<>>
        target == target_attrs(q)
    IN IF q.bind_method = "simple" /\ ~(Truthy(q.bind_dn) /\ Truthy(q.bind_pw))
       THEN fail("bind_method=simple requires bind_dn and bind_pw", <<>>, d)
       ELSE IF q.bind_method = "sslclientauth"
                /\ ~(Truthy(q.tls_client_cert) /\ Truthy(q.tls_client_key))
       THEN fail("bind_method=sslclientauth requires tls_client_cert and tls_client_key",
                 <<>>, d)
       ELSE IF ~d.replica
       THEN fail("Enable replication on suffix before creating agreements", <<>>, d)
       ELSE IF q.state = "absent"
       THEN IF existing = <<>> THEN done(FALSE, Nil, <<>>, d)
            ELSE IF q.check_mode THEN done(TRUE, Some(existing[1].dn), <<>>, d)
            ELSE IF fault = "delete" THEN fail("Failed to delete agreement", <<"delete">>, d)
            ELSE done(TRUE, Some(existing[1].dn), <<"delete">>,
                      [d EXCEPT !.agmts = [cn \in DOMAIN d.agmts \ {existing[1].dn} |->
                                              d.agmts[cn]]])
       ELSE IF existing = <<>>
       THEN LET cn_val == IF Truthy(q.name) THEN Val(q.name)
                          ELSE AgmtLabel(q.consumer_host, q.consumer_port)
                add_attrs == Merge(target,
                                   Merge(One("objectClass", <<"top", "nsDS5ReplicationAgreement">>),
                                         One("cn", cn_val)))
            IN IF q.check_mode THEN done(TRUE, Some(cn_val), <<>>, d)
               ELSE IF fault = "add" \/ cn_val \in DOMAIN d.agmts
               THEN fail("Failed to create agreement", <<"add">>, d)
               ELSE IF fault = "modify"
               THEN fail("Failed to create agreement", <<"add", "modify">>,
                         [d EXCEPT !.agmts = Put(d.agmts, cn_val, add_attrs)])
               ELSE done(TRUE, Some(cn_val), <<"add", "modify">>,
                         [d EXCEPT !.agmts =
                             Put(d.agmts, cn_val, Put(add_attrs, "nsds5ReplicaEnabled", TxtOn))])
       ELSE LET dn == existing[1].dn
                changes == agreement_changes(existing[1].attrs, target)
            IN IF DOMAIN changes = {} THEN done(FALSE, Some(dn), <<>>, d)
               ELSE IF q.check_mode THEN done(TRUE, Some(dn), <<>>, d)
               ELSE IF fault = "modify" THEN done(TRUE, Some(dn), <<"modify">>, d)
               ELSE done(TRUE, Some(dn), <<"modify">>,
                         [d EXCEPT !.agmts = Put(d.agmts, dn, Merge(changes, d.agmts[dn]))])

AgmtName == <<"agmt1">>

\* bind_method with bind_dn, bind_pw, tls_client_cert, tls_client_key
Binds ==
    {<<"simple", Some("cn=repl"), Some("secret"), Nil, Nil>>,
     <<"simple", Some("cn=repl"), Nil, Nil, Nil>>,
     <<"sslclientauth", Nil, Nil, Some("c.crt"), Some("c.key")>>}

AgreementParams ==
    {[suffix |-> SuffixDn, consumer_host |-> "c1", consumer_port |-> 636, name |-> nm,
      bind_method |-> b[1], bind_dn |-> b[2], bind_pw |-> b[3],
      tls_client_cert |-> b[4], tls_client_key |-> b[5], transport |-> tr,
      backoff_min |-> bo, backoff_max |-> Nil, purge_delay |-> Nil, compression |-> FALSE,
      state |-> st, check_mode |-> cm] :
        nm \in {Nil, Some(AgmtName)}, b \in Binds, tr \in {"LDAPS", "StartTLS"},
        bo \in {Nil, Some(3)}, st \in {"present", "absent"}, cm \in BOOLEAN}

\* An agreement to c1:636 that an administrator made: plain LDAP, disabled
ForeignAgreement ==
    [k \in {"objectClass", "cn", "nsds5ReplicaHost", "nsds5ReplicaPort",
            "nsds5ReplicaTransportInfo", "nsds5ReplicaRoot", "nsds5ReplicaEnabled"} |->
        CASE k = "objectClass" -> <<"top", "nsDS5ReplicationAgreement">>
          [] k = "cn" -> <<"to c1">>
          [] k = "nsds5ReplicaHost" -> "c1"
          [] k = "nsds5ReplicaPort" -> "636"
          [] k = "nsds5ReplicaTransportInfo" -> "LDAP"
          [] k = "nsds5ReplicaRoot" -> SuffixDn
          [] k = "nsds5ReplicaEnabled" -> TxtOff]

\* The replica entry of a supplier with replica id 1
SupplierOne == [replica_type |-> "supplier", replica_id |-> Some(1)]

Directories ==
    {NoDir,
     [replica |-> TRUE, conf |-> Some(SupplierOne), agmts |-> EmptyMap],
     [replica |-> TRUE, conf |-> Some(SupplierOne),
      agmts |-> One(<<"to c1">>, ForeignAgreement)]}

InitAgreement ==
    /\ dir \in Directories
    /\ \E q \in AgreementParams :
        agmt_run = [params |-> Some(q), n |-> 0, result |-> NoAgResult, ops |-> <<>>,
                    clean |-> TRUE, prev_result |-> NoAgResult, prev_clean |-> TRUE]
    /\ enable_run = NoEnableRun
    /\ ToolsOff
    /\ now = 0
    /\ cb = CircuitBreakerInit(DefaultThreshold, DefaultCooldown)
    /\ can_ret = "none"
    /\ streak = 0
    /\ last_call = "init"
    /\ ar = NoRetry
    /\ call = NoCall
    /\ rh = NoHistory
    /\ WaitOff

\* One run of the module; clean: no search and no operation of the run failed
ARun ==
    /\ agmt_run.n < MaxRuns
    /\ \E fault \in Faults :
        \E r \in {agreement_run(Val(agmt_run.params), dir, fault)} :
            /\ dir' = r.dir
            /\ agmt_run' = [agmt_run EXCEPT !.n = @ + 1, !.result = r.result,
                                            !.ops = r.ops, !.clean = (fault = "none"),
                                            !.prev_result = agmt_run.result,
                                            !.prev_clean = agmt_run.clean]
    /\ UNCHANGED <<cb, now, can_ret, streak, last_call, retryVars, waitVars, enable_run,
                   toolVars>>

NextAgreement == ARun

SpecAgreement == InitAgreement /\ [][NextAgreement]_vars

-----------------------------------------------------------------------------
(* SpecEnable: ds_repl_enable run again and again with the same parameters. *)
(* A run is the pre-check, the enable command and the post-check, each a    *)
(* dsconf process whose outcome the server and the host decide.             *)

EnableParams ==
    {[role |-> r, replica_id |-> id, check_mode |-> cm] :
        r \in {"supplier", "hub", "consumer"}, id \in {Nil, Some(1)}, cm \in BOOLEAN}

\* _get_state: <<enabled, details>>; answered says that dsconf returned 0
\* with the JSON of the replica entry, which exists only when replication is
\* enabled; every other outcome is (False, None)
get_state(d, answered) ==
    IF answered /\ d.replica /\ ~IsNil(d.conf)
    THEN <<TRUE, Some([replica_type |-> Val(d.conf).replica_type,
                       replica_id |-> Val(d.conf).replica_id])>>
    ELSE <<FALSE, Nil>>

\* Lines 150-157: what the enable command is given
enable_argv(q) ==
    [role |-> q.role,
     replica_id |-> IF q.role \in {"supplier", "hub"} /\ ~IsNil(q.replica_id)
                       /\ Val(q.replica_id) # 0
                    THEN q.replica_id ELSE Nil]

EnResult(outcome, changed, enabled, details, msg) ==
    [outcome |-> outcome, changed |-> changed, enabled |-> enabled, details |-> details,
     msg |-> msg]
NoEnResult == EnResult("none", FALSE, FALSE, Nil, "")

\* Mutant of post_check_exit: the post-check's answer is ignored
post_check_exit_unchecked(st) == EnResult("ok", TRUE, TRUE, st[2], "")

\* Lines 168-172
post_check_exit(st) ==
    IF ~st[1] THEN EnResult("failed", FALSE, FALSE, Nil, "Replication not enabled after dsconf run")
    ELSE EnResult("ok", TRUE, TRUE, st[2], "")

NewEnableRun(q, n) ==
    [params |-> Some(q), n |-> n, pc |-> "pre", pre |-> Nil, cmd |-> Nil,
     enable_rc |-> "none", post |-> Nil, result |-> NoEnResult]

InitEnable ==
    /\ dir \in {d \in Directories : d.agmts = EmptyMap}
    /\ \E q \in EnableParams : enable_run = NewEnableRun(q, 0)
    /\ agmt_run = NoAgreementRun
    /\ ToolsOff
    /\ now = 0
    /\ cb = CircuitBreakerInit(DefaultThreshold, DefaultCooldown)
    /\ can_ret = "none"
    /\ streak = 0
    /\ last_call = "init"
    /\ ar = NoRetry
    /\ call = NoCall
    /\ rh = NoHistory
    /\ WaitOff

EnableIdle ==
    UNCHANGED <<cb, now, can_ret, streak, last_call, retryVars, waitVars, agmt_run, toolVars>>

\* Lines 143-148: the pre-check and the two exits that follow it
EPreCheck ==
    /\ ~IsNil(enable_run.params) /\ enable_run.pc = "pre"
    /\ \E answered \in BOOLEAN :
        LET st == get_state(dir, answered)
            q == Val(enable_run.params)
        IN enable_run' =
            IF st[1]
            THEN [enable_run EXCEPT !.pre = Some(TRUE), !.pc = "done", !.n = @ + 1,
                                    !.result = EnResult("ok", FALSE, TRUE, st[2], "")]
            ELSE IF q.check_mode
            THEN [enable_run EXCEPT !.pre = Some(FALSE), !.pc = "done", !.n = @ + 1,
                                    !.result = EnResult("ok", TRUE, TRUE, Nil, "")]
            ELSE [enable_run EXCEPT !.pre = Some(FALSE), !.pc = "enable"]
    /\ UNCHANGED dir
    /\ EnableIdle

\* What the enable command can do: enable replication and return 0, return 0
\* without effect, refuse because replication is already enabled, fail
\* otherwise, or outlive op_timeout
EnableOutcomes(d) ==
    {"ok", "no_effect", "failed", "timeout"} \cup (IF d.replica THEN {"already"} ELSE {})

\* The return code of the enable command
ReturnCode(out) ==
    CASE out \in {"ok", "no_effect"} -> "zero"
      [] out \in {"already", "failed"} -> "nonzero"
      [] out = "timeout" -> "none"

\* Lines 150-165: the enable command and the exits on its return code; the
\* TimeoutExpired of _run is caught nowhere
EEnable ==
    /\ ~IsNil(enable_run.params) /\ enable_run.pc = "enable"
    /\ \E out \in EnableOutcomes(dir) :
        LET argv == enable_argv(Val(enable_run.params))
            ran == [enable_run EXCEPT !.cmd = Some(argv), !.enable_rc = ReturnCode(out)]
        IN /\ dir' = IF out = "ok" /\ ~dir.replica
                     THEN [dir EXCEPT !.replica = TRUE,
                                      !.conf = Some([replica_type |-> argv.role,
                                                     replica_id |-> argv.replica_id])]
                     ELSE dir
           /\ enable_run' =
                CASE out \in {"ok", "no_effect"} -> [ran EXCEPT !.pc = "post"]
                  [] out = "already" ->
                       [ran EXCEPT !.pc = "done", !.n = @ + 1,
                                   !.result = EnResult("ok", FALSE, TRUE, Nil, "")]
                  [] out = "failed" ->
                       [ran EXCEPT !.pc = "done", !.n = @ + 1,
                                   !.result = EnResult("failed", FALSE, FALSE, Nil,
                                                       "dsconf replication enable failed")]
                  [] out = "timeout" ->
                       [ran EXCEPT !.pc = "done", !.n = @ + 1,
                                   !.result = EnResult("crashed", FALSE, FALSE, Nil,
                                                       "TimeoutExpired")]
    /\ EnableIdle

\* Lines 167-172
EPostCheck ==
    /\ ~IsNil(enable_run.params) /\ enable_run.pc = "post"
    /\ \E answered \in BOOLEAN :
        LET st == get_state(dir, answered)
        IN enable_run' = [enable_run EXCEPT !.post = Some(st[1]), !.pc = "done",
                                            !.n = @ + 1, !.result = post_check_exit(st)]
    /\ UNCHANGED dir
    /\ EnableIdle

\* The play runs the task again with the same parameters
EAgain ==
    /\ ~IsNil(enable_run.params) /\ enable_run.pc = "done"
    /\ enable_run.n < MaxRuns
    /\ enable_run' = NewEnableRun(Val(enable_run.params), enable_run.n)
    /\ UNCHANGED dir
    /\ EnableIdle

NextEnable == EPreCheck \/ EEnable \/ EPostCheck \/ EAgain

SpecEnable == InitEnable /\ [][NextEnable]_vars

-----------------------------------------------------------------------------
(* Claims about ds_repl_wait's loop *)

\* C1: Success is reported only by a cycle that passed and that closes a run
\* of at least steady_ok_polls consecutive passing cycles, in phase mode and
\* in legacy mode; a failing cycle after which the loop goes on leaves
\* ok_streak at zero, and while the loop runs ok_streak is the length of the
\* current run of passing cycles.
C1_SuccessNeedsSteadyRun ==
    /\ exit.outcome = "succeeded" =>
        /\ wh.passed
        /\ wh.cycle = exit.cycles
        /\ wh.pass_run >= p.steady_ok_polls
    /\ (wh.cycle >= 1 /\ ~wh.passed /\ wpc # "done") => ok_streak = 0
    /\ wpc \in {"loop", "sleep"} => ok_streak = wh.pass_run

\* Success with steady_ok_polls >= 2 after more cycles than the run needs:
\* an earlier cycle failed and its streak was discarded.
C1_Witness ==
    /\ exit.outcome = "succeeded"
    /\ p.steady_ok_polls >= 2
    /\ exit.cycles > p.steady_ok_polls

EmptyResolved == wpc # "start" /\ IsNil(p.agreements) /\ p.all /\ target_dns = <<>>

\* C2: When all=true resolves to no agreement (none exists or the search
\* fails), the invocation is over at once with a failure: no cycle runs on
\* the empty set and success is never reported.
C2_EmptyTargetsFailImmediately ==
    EmptyResolved => (wpc = "done" /\ exit.outcome = "failed" /\ cycle = 0)

PhaseNames == {"configured", "working", "finished"}
PhaseMet(ph) ==
    CASE ph = "configured" -> wh.configured_met
      [] ph = "working" -> wh.working_met
      [] ph = "finished" -> wh.finished_met
PhaseDeadline(ph) ==
    CASE ph = "configured" -> configured_deadline(p)
      [] ph = "working" -> working_deadline(p)
      [] ph = "finished" -> done_deadline(p)
PhaseReason(ph) ==
    CASE ph = "configured" -> "configured-timeout"
      [] ph = "working" -> "start-timeout"
      [] ph = "finished" -> "done-timeout"
\* The requested phases found false past their deadline by the latest decision
DuePhases ==
    IF IsNil(p.require) \/ wh.cycle = 0 THEN {}
    ELSE {ph \in PhaseNames :
            Val(p.require)[ph] /\ ~PhaseMet(ph) /\ wh.now_mono > PhaseDeadline(ph)}

\* C3: In phase mode, a decision that finds a requested phase false past its
\* deadline ends the invocation in that cycle as a failure whose reason is the
\* timeout reason of such a phase; that cycle does not report success.
C3_StalledPhaseFailsInCycle ==
    DuePhases # {} =>
        /\ wpc = "done"
        /\ exit.outcome = "failed"
        /\ exit.cycles = wh.cycle
        /\ exit.reason \in {PhaseReason(ph) : ph \in DuePhases}

\* The working phase stalled while configured held
C3_Witness ==
    /\ wpc = "done"
    /\ exit.reason = "start-timeout"
    /\ wh.configured_met
    /\ DuePhases = {"working"}

\* C4: An invocation given agreements or all=true ends as succeeded or as
\* failed and in no other way.
C4_TerminatesSucceededOrFailed ==
    (wpc = "done" /\ (~IsNil(p.agreements) \/ p.all)) =>
        exit.outcome \in {"succeeded", "failed"}

LoopFailure == wpc = "done" /\ exit.outcome = "failed" /\ (~IsNil(p.agreements) \/ p.all)

\* C5 as stated: every failure of the loop has a reason among
\* configured-timeout, start-timeout, done-timeout, overall-timeout.
C5_ReasonsWithOverallTimeout ==
    LoopFailure =>
        exit.reason \in {"configured-timeout", "start-timeout", "done-timeout",
                         "overall-timeout"}

\* C5 (amended): every failure of the loop has a reason among
\* configured-timeout, start-timeout, done-timeout, timeout, and leaving the
\* loop because the overall timeout has elapsed reports the reason timeout.
C5_FailureReasons ==
    /\ [](LoopFailure =>
            exit.reason \in {"configured-timeout", "start-timeout", "done-timeout",
                             "timeout"})
    /\ [][(wpc = "loop" /\ ~(now < deadline(p)))
            => (wpc' = "done" /\ exit'.outcome = "failed" /\ exit'.reason = "timeout")]_vars

\* The overall timeout ended a loop that ran at least two cycles
C5_Witness ==
    /\ LoopFailure
    /\ exit.reason = "timeout"
    /\ exit.cycles >= 2


\* C21: with timeouts given as (configured, start, done), all non-negative,
\* the phase deadlines are start_ts + configured, then that plus start, then
\* that plus done; they are ordered, and no start-timeout failure comes
\* before configured + start seconds have elapsed.
C21_SequentialDeadlines ==
    (wpc # "start" /\ (~IsNil(p.agreements) \/ p.all) /\ ~IsNil(p.timeouts)) =>
        LET tmo == Val(p.timeouts)
        IN /\ configured_deadline(p) = start_ts + tmo.configured
           /\ working_deadline(p) = configured_deadline(p) + tmo.start
           /\ done_deadline(p) = working_deadline(p) + tmo.done
           /\ configured_deadline(p) <= working_deadline(p)
           /\ working_deadline(p) <= done_deadline(p)
           /\ exit.reason = "start-timeout" =>
                 exit.elapsed_s >= tmo.configured + tmo.start


\* monitor_every as the documentation declares it: 3 unless given
DeclaredMonitorEvery ==
    IF IsNil(p.monitor_every) THEN DefaultMonitorEvery ELSE Val(p.monitor_every)

\* C25: with monitoring enabled the backlog is sampled on cycle 1 and on the
\* cycles whose number is a multiple of monitor_every (3 unless given), on no
\* other cycle; and every cycle that started, sampled or not, has computed
\* its aggregates and its decision.
C25_SamplingSchedule ==
    cycle >= 1 =>
        /\ wh.cycle = cycle
        /\ MonitorEnabled(p) =>
              (wh.sampled <=> (cycle = 1 \/ cycle % DeclaredMonitorEvery = 0))

\* C26: every failure the invocation ends with carries the last observed
\* snapshots and a hints list without duplicates, be it a phase timeout, the
\* overall timeout or a configuration error.
C26_FailuresCarryDiagnostics ==
    exit.outcome = "failed" =>
        /\ ~IsNil(exit.observations)
        /\ Val(exit.observations) = last_obs
        /\ ~IsNil(exit.hints)
        /\ hints \subseteq Val(exit.hints)

-----------------------------------------------------------------------------
(* Claims about CircuitBreaker and AdaptiveRetry *)

\* C6: starting CLOSED, the breaker becomes OPEN exactly on the threshold-th
\* consecutive record_failure and not earlier; while OPEN, can_execute
\* returns False whenever now - last_failure_time <= cooldown and returns
\* True, moving to HALF_OPEN, only when now - last_failure_time > cooldown.
C6_OpensAtThresholdReopensAfterCooldown ==
    /\ [](streak < cb.threshold => cb.state = "CLOSED")
    /\ [](last_call = "record_failure" /\ streak >= cb.threshold => cb.state = "OPEN")
    /\ [][(cb.state = "OPEN" /\ last_call' = "can_execute") =>
            IF now - cb.last_failure_time > cb.timeout
            THEN can_ret' = "true" /\ cb'.state = "HALF_OPEN"
            ELSE can_ret' = "false" /\ cb'.state = "OPEN"]_vars

\* threshold 5, cooldown 60: opened by the 5th failure, refused at 59 s and
\* permitted at 61 s
C6_Witness ==
    /\ cb.threshold = 5 /\ cb.timeout = 60
    /\ streak = 5
    /\ cb.state = "HALF_OPEN"
    /\ can_ret = "true"
    /\ now - cb.last_failure_time = 61

IsBreakerOpenError(e) ==
    /\ e.type = "Exception"
    /\ StrContains(StrLower(e.msg),
                   <<"c", "i", "r", "c", "u", "i", "t", " ", "b", "r", "e", "a", "k", "e", "r", " ", "i", "s", " ", "o", "p", "e", "n">>)

\* C8: when can_execute refuses, the operation is not invoked and the call
\* fails with a 'circuit breaker open' failure of its own kind.
C8_RefusalIsBreakerOpenFailure ==
    rh.outcome = "refused" =>
        /\ rh.result.kind = "raised"
        /\ IsBreakerOpenError(rh.result.exc)

\* C9: within one call the delays of calculate_delay never decrease and
\* none exceeds max_delay, with or without jitter.
C9_DelaysMonotoneAndCapped ==
    \A i \in 1..Len(rh.delays) :
        /\ QLeq(rh.delays[i], ar.config.max_delay)
        /\ i > 1 => QLeq(rh.delays[i - 1], rh.delays[i])

\* The keywords the claim lists
C10_ListedKeywords ==
    << <<"t", "i", "m", "e", "o", "u", "t">>,
       <<"c", "o", "n", "n", "e", "c", "t", "i", "o", "n">>,
       <<"n", "e", "t", "w", "o", "r", "k">>,
       <<"t", "e", "m", "p", "o", "r", "a", "r", "y">>,
       <<"b", "u", "s", "y">>,
       <<"l", "o", "c", "k", "e", "d">>,
       <<"r", "e", "s", "o", "u", "r", "c", "e">>,
       <<"u", "n", "a", "v", "a", "i", "l", "a", "b", "l", "e">>,
       <<"c", "a", "n", "'", "t", " ", "c", "o", "n", "t", "a", "c", "t">>,
       <<"i", "n", " ", "p", "r", "o", "g", "r", "e", "s", "s">> >>

HasKeyword(e, keywords) ==
    \E i \in 1..Len(keywords) : StrContains(StrLower(e.msg), keywords[i])

\* The call ended at once with the error of its last invocation: no delay
\* was computed, no sleep is pending
StoppedWith(e) ==
    /\ call.pc = "idle"
    /\ rh.result = Raise(e)
    /\ Len(rh.delays) = rh.slept

\* C10 as stated: an error whose message holds none of the ten listed
\* keywords ends the call at once and is the error propagated.
C10_ListedKeywordsDecide ==
    (rh.outcome = "raised" /\ ~HasKeyword(rh.error, C10_ListedKeywords)) =>
        StoppedWith(rh.error)

\* C10 amended: an error whose message holds none of the ten listed
\* keywords and not "unknown" either ends the call at once, without
\* another invocation or a sleep, and is the error propagated.
C10_NonRetryableStops ==
    (rh.outcome = "raised"
        /\ ~HasKeyword(rh.error, C10_ListedKeywords \o << <<"u", "n", "k", "n", "o", "w", "n">> >>)) =>
        StoppedWith(rh.error)

\* "Invalid credentials" ended a call that had attempts left
C10_Witness ==
    /\ rh.outcome = "raised"
    /\ rh.error.msg = MsgInvalidCreds
    /\ StoppedWith(rh.error)
    /\ rh.invoked >= 2
    /\ rh.invoked <= ar.config.max_retries


\* C11: One execute_with_retry call invokes the operation at most
\* max_retries + 1 times, and a call that used all max_retries + 1
\* invocations, each failing with a retryable error, raises the exception of
\* its last invocation.
C11_AtMostMaxRetriesPlusOne ==
    /\ rh.invoked <= (IF ar.config.max_retries >= 0 THEN ar.config.max_retries + 1 ELSE 0)
    /\ (/\ call.pc = "idle"
        /\ rh.calls >= 1
        /\ rh.invoked >= 1
        /\ rh.invoked = ar.config.max_retries + 1
        /\ rh.outcome = "raised"
        /\ rh.slept = ar.config.max_retries)
       => rh.result = [kind |-> "raised", exc |-> rh.error]

\* Three invocations failed with a retryable error and the last one's
\* exception was raised
C11_Witness ==
    /\ call.pc = "idle"
    /\ ar.config.max_retries = 2
    /\ rh.invoked = 3
    /\ rh.slept = 2
    /\ rh.outcome = "raised"
    /\ should_retry(rh.error)
    /\ rh.result = [kind |-> "raised", exc |-> rh.error]


\* C12: The first successful invocation of a call ends the call: the result
\* is returned, the call invokes nothing more and sleeps no more, and the
\* breaker is then CLOSED with failure_count = 0, however many failures came
\* before the success in that call.
C12_SuccessReturnsAndCloses ==
    /\ [](rh.outcome = "ok" =>
            /\ call.pc = "idle"
            /\ rh.result = [kind |-> "returned", exc |-> None]
            /\ cb.state = "CLOSED"
            /\ cb.failure_count = 0)
    /\ [][(rh.outcome = "ok" /\ rh'.calls = rh.calls)
            => (rh'.invoked = rh.invoked /\ rh'.slept = rh.slept)]_vars

\* A call succeeded on its third invocation, after two failures and two sleeps
C12_Witness ==
    /\ rh.outcome = "ok"
    /\ rh.invoked = 3
    /\ rh.slept = 2
    /\ cb.state = "CLOSED"
    /\ cb.failure_count = 0


\* The delay d is base_delay, times some factor of [0.5, 1.5] under jitter
IsFirstDelay(d, config) ==
    IF config.jitter
    THEN /\ QLeq(QMul(config.base_delay, <<1, 2>>), d)
         /\ QLeq(d, QMul(config.base_delay, <<3, 2>>))
    ELSE QLeq(d, config.base_delay) /\ QLeq(config.base_delay, d)

\* C30: in every execute_with_retry call the delay before the first retry is
\* base_delay (times the jitter factor when jitter is enabled), also in a
\* call that follows one which ended in failure after one or more retries.
C30_FirstDelayIsBaseDelay ==
    Len(rh.delays) >= 1 => IsFirstDelay(rh.delays[1], ar.config)

-----------------------------------------------------------------------------
(* Claims about the aggregates and verdicts of a cycle. The observations   *)
(* are those of the latest cycle (last_obs); wh.prev holds the trend       *)
(* values that cycle started from and wh.now_mono its now_epoch.           *)

ObsOf(i) == last_obs[i]
AgeKnown(o) == ~IsNil(o.update_age) /\ Val(o.update_age) >= 0
\* 0 <= age <= stale_seconds
Fresh(o) == AgeKnown(o) /\ Val(o.update_age) <= p.stale_seconds
StatusText(o) == IF IsNil(o.update_status) THEN <<>> ELSE StrLower(Val(o.update_status))
\* The success signal of the latest update: code 0, or a success keyword in the text
SuccessSignal(o) ==
    \/ o.update_code = Some(0)
    \/ StrContains(StatusText(o), KwSucceed)
    \/ StrContains(StatusText(o), KwAcquired)
    \/ StrContains(StatusText(o), KwIncremental)
ObsBusy(o) == o.busy = Some(TRUE)
EndEpochOf(o) == IF AgeKnown(o) THEN Some(wh.now_mono - Val(o.update_age)) ELSE Nil
\* Forward progress since the previous cycle: update-start epoch advanced,
\* update-end epoch advanced, or age decreased
Progress(o) ==
    /\ o.dn \in DOMAIN wh.prev
    /\ LET prev == wh.prev[o.dn]
       IN \/ /\ ~IsNil(o.update_start_epoch) /\ ~IsNil(prev.update_start_epoch)
             /\ Val(o.update_start_epoch) > Val(prev.update_start_epoch)
          \/ /\ ~IsNil(EndEpochOf(o)) /\ ~IsNil(prev.end_epoch)
             /\ Val(EndEpochOf(o)) > Val(prev.end_epoch)
          \/ /\ ~IsNil(o.update_age) /\ ~IsNil(prev.age)
             /\ Val(o.update_age) < Val(prev.age)

\* C13: In each cycle working_met is true iff some observed agreement is
\* busy, or shows forward progress since the previous cycle, or has a success
\* signal for its latest update with 0 <= age <= stale_seconds.
C13_WorkingMet ==
    wh.cycle >= 1 =>
        (wh.working_met <=>
            \E i \in DOMAIN last_obs :
                ObsBusy(ObsOf(i)) \/ Progress(ObsOf(i))
                    \/ (SuccessSignal(ObsOf(i)) /\ Fresh(ObsOf(i))))

\* init-ok: the init code is not a known non-zero value, or require_init_success is off
InitOk(o) == o.init_code \in {Nil, Some(0)} \/ ~p.require_init_success
\* The backlog the latest sample gave for the agreement is unknown or zero
BacklogOk(o) ==
    cn_from_dn(o.dn) \in DOMAIN backlog_by_name => backlog_by_name[cn_from_dn(o.dn)] = 0
FinishedAgreement(o) ==
    ~ObsBusy(o) /\ InitOk(o) /\ (SuccessSignal(o) /\ Fresh(o)) /\ BacklogOk(o)

\* C14: In each cycle over at least one agreement, finished_met is true iff
\* every targeted agreement is not busy, init-ok, success-and-fresh and has a
\* backlog that is unknown or zero.
C14_FinishedMet ==
    (wh.cycle >= 1 /\ last_obs # <<>>) =>
        (wh.finished_met <=> \A i \in DOMAIN last_obs : FinishedAgreement(ObsOf(i)))

\* What the directory held for agreement i in the latest cycle
EntryOf(i) == wh.entries[i]
\* The agreement's entry was read and its nsds5ReplicaEnabled value reads as true
ReportsEnabled(e) ==
    e.found /\ ~IsNil(e.enabled) /\ StrLower(Val(e.enabled)) \in TruthyWords

\* C15: In each cycle over at least one agreement, configured_met is true iff
\* every targeted agreement reports enabled as true; an agreement whose
\* enabled attribute is absent, whose read failed, or whose value is false
\* makes configured_met false.
C15_ConfiguredMet ==
    (wh.cycle >= 1 /\ last_obs # <<>>) =>
        /\ wh.configured_met <=> \A i \in DOMAIN last_obs : ReportsEnabled(EntryOf(i))
        /\ \A i \in DOMAIN last_obs :
              ReportsEnabled(EntryOf(i)) <=> ObsOf(i).enabled = Some(TRUE)

\* Of two agreements the first was read without an enabled attribute, the
\* second is enabled, and configured_met is false
C15_Witness ==
    /\ wh.cycle >= 1
    /\ Len(last_obs) = 2
    /\ EntryOf(1).found
    /\ IsNil(EntryOf(1).enabled)
    /\ ReportsEnabled(EntryOf(2))
    /\ ~wh.configured_met

\* The status text holds a success keyword and no number
TextualSuccessOnly(o) ==
    /\ IsNil(o.update_code)
    /\ \/ StrContains(StatusText(o), KwSucceed)
       \/ StrContains(StatusText(o), KwAcquired)
       \/ StrContains(StatusText(o), KwIncremental)

\* C16: An agreement whose update status text has a success keyword and no
\* numeric code, with 0 <= age <= stale_seconds, makes working_met true, and
\* finished_met is true when every agreement is moreover not busy, init-ok
\* and without backlog.
C16_TextualSuccessHonoured ==
    (/\ wh.cycle >= 1
     /\ \E i \in DOMAIN last_obs : TextualSuccessOnly(ObsOf(i)) /\ Fresh(ObsOf(i)))
    => /\ wh.working_met
       /\ (\A i \in DOMAIN last_obs : FinishedAgreement(ObsOf(i))) => wh.finished_met

\* The verdicts the latest cycle produced (its unhealthy list)
Verdicts == {wh.unhealthy[k] : k \in DOMAIN wh.unhealthy}
CodeKnownNonZero(o) == ~IsNil(o.update_code) /\ Val(o.update_code) # 0

\* C17: An agreement gets the verdict 'update failed' iff its update code is
\* known and non-zero and its age is unknown, negative or above
\* stale_seconds; a non-zero code with 0 <= age <= stale_seconds gives no
\* verdict; an agreement with the verdict makes finished_met false.
C17_UpdateFailedVerdict ==
    wh.cycle >= 1 =>
        \A i \in DOMAIN last_obs :
            /\ <<ObsOf(i).dn, "update_code!=0">> \in Verdicts
                  <=> (CodeKnownNonZero(ObsOf(i)) /\ ~Fresh(ObsOf(i)))
            /\ <<ObsOf(i).dn, "update_code!=0">> \in Verdicts => ~wh.finished_met

\* Code 1 with an age of two seconds, above stale_seconds = 1: update failed,
\* and finished_met is false
C17_Witness ==
    /\ wh.cycle >= 1
    /\ Len(last_obs) = 1
    /\ ObsOf(1).update_code = Some(1)
    /\ ObsOf(1).update_age = Some(p.stale_seconds + 1)
    /\ <<ObsOf(1).dn, "update_code!=0">> \in Verdicts
    /\ ~wh.finished_met

VerdictsOf(o) == {v \in Verdicts : v[1] = o.dn}

\* C18: An observation whose replica_enabled, init_code and update_code are
\* all unknown gets no verdict; 'replica disabled' is given only for a
\* definite false, 'init failed' only with require_init_success and a known
\* non-zero init code, 'update failed' only for a known non-zero update code.
C18_UnknownIsNoFailure ==
    wh.cycle >= 1 =>
        \A i \in DOMAIN last_obs :
            /\ (/\ IsNil(ObsOf(i).replica_enabled)
                /\ IsNil(ObsOf(i).init_code)
                /\ IsNil(ObsOf(i).update_code)) => VerdictsOf(ObsOf(i)) = {}
            /\ <<ObsOf(i).dn, "replica disabled">> \in Verdicts
                  => ObsOf(i).replica_enabled = Some(FALSE)
            /\ <<ObsOf(i).dn, "init_code!=0">> \in Verdicts
                  => /\ p.require_init_success
                     /\ ~IsNil(ObsOf(i).init_code) /\ Val(ObsOf(i).init_code) # 0
            /\ <<ObsOf(i).dn, "update_code!=0">> \in Verdicts
                  => CodeKnownNonZero(ObsOf(i))

\* The replica entry could not be read and the agreement's read failed: a
\* 'missing' observation, every field unknown, and no verdict
C18_Witness ==
    /\ wh.cycle >= 1
    /\ Len(last_obs) = 1
    /\ ~EntryOf(1).found
    /\ IsNil(ObsOf(1).replica_enabled)
    /\ IsNil(ObsOf(1).init_code)
    /\ IsNil(ObsOf(1).update_code)
    /\ IsNil(ObsOf(1).update_age)
    /\ Verdicts = {}

\* stale: no success signal, and the age is unknown, negative or above stale_seconds
Stale(o) == ~SuccessSignal(o) /\ ~Fresh(o)
\* Individually unhealthy: stale, failed update, failed init or replica disabled
Unhealthy(o) ==
    \/ Stale(o)
    \/ CodeKnownNonZero(o) /\ ~Fresh(o)
    \/ p.require_init_success /\ ~IsNil(o.init_code) /\ Val(o.init_code) # 0
    \/ o.replica_enabled = Some(FALSE)

\* C19: In legacy mode a cycle passes iff no targeted agreement is
\* individually unhealthy (stale, failed update, failed init, replica
\* disabled); a cycle with a stale agreement does not pass.
C19_LegacyPassIffNoneUnhealthy ==
    (wh.cycle >= 1 /\ wh.cycle = cycle /\ IsNil(p.require)) =>
        (wh.passed <=> \A i \in DOMAIN last_obs : ~Unhealthy(ObsOf(i)))

ConfiguredAndWorkingOnly ==
    p.require = Req(TRUE, TRUE, FALSE)

\* C20: With require {configured: true, working: true, finished: false} a
\* cycle passes iff configured and working hold, whatever finished is;
\* success is reported by the cycle that completes steady_ok_polls
\* consecutive such cycles, and no failure has the reason done-timeout.
C20_OnlyRequestedPhasesGate ==
    ConfiguredAndWorkingOnly =>
        /\ exit.reason # "done-timeout"
        /\ (wh.cycle >= 1 /\ wh.cycle = cycle) =>
              /\ wh.passed <=> (wh.configured_met /\ wh.working_met)
              /\ (wh.passed /\ wh.pass_run >= p.steady_ok_polls)
                    <=> (exit.outcome = "succeeded" /\ exit.cycles = wh.cycle)

\* Success although finished was false past the finished deadline
C20_Witness ==
    /\ ConfiguredAndWorkingOnly
    /\ exit.outcome = "succeeded"
    /\ p.steady_ok_polls >= 2
    /\ ~wh.finished_met
    /\ wh.now_mono > done_deadline(p)


\* The agreement fields of a snapshot, the identifier apart
SnapshotFields ==
    {"enabled", "busy", "update_start_epoch", "update_code", "update_age", "init_code",
     "update_status", "init_status"}

\* C23: _observations returns one snapshot per requested agreement, in the
\* requested order; the snapshot of an agreement whose read failed has every
\* field unknown and the status 'missing', the other agreements of the batch
\* have the values of their own entries, and no error leaves the call.
C23_OneSnapshotPerAgreement ==
    (wh.cycle >= 1 /\ wh.cycle = cycle) =>
        /\ exit.outcome # "crashed"
        /\ Len(wh.obs) = Len(target_dns)
        /\ \A i \in DOMAIN wh.obs :
            LET o == wh.obs[i]
                e == EntryOf(i)
            IN /\ o.dn = target_dns[i]
               /\ ~e.found =>
                    /\ \A f \in SnapshotFields : IsNil(o[f])
                    /\ o.status = "missing"
               /\ e.found =>
                    /\ o.status = "unknown"
                    /\ o.enabled = Some(TRUE) <=> ReportsEnabled(e)
                    /\ IsNil(o.enabled) <=> IsNil(e.enabled)
                    /\ o.update_status = e.upd_status
                    /\ o.init_status = e.init_status
                    /\ IsNil(o.busy) <=> IsNil(e.busy)
                    /\ ~IsNil(o.update_age)

\* Of two agreements the first could not be read and the second was read
C23_Witness ==
    /\ wh.cycle >= 1
    /\ wh.cycle = cycle
    /\ Len(wh.obs) = 2
    /\ ~EntryOf(1).found
    /\ wh.obs[1].status = "missing"
    /\ EntryOf(2).found
    /\ wh.obs[2].update_code = Some(0)
    /\ wh.obs[2].enabled = Some(TRUE)

-----------------------------------------------------------------------------
(* Claims about the pace of the loop, the backlog sampling and the defaults *)

\* C22: the sleep after a cycle is poll_interval while the elapsed time is
\* below backoff_after, and afterwards the larger of poll_interval and
\* backoff_interval; it is never shorter than poll_interval and never shorter
\* than the sleep before it in the same invocation.
C22_SleepsNeverShrink ==
    [][(wpc = "sleep" /\ wpc' = "loop") =>
          /\ now' - now = (IF elapsed < p.backoff_after THEN p.poll_interval
                           ELSE IF p.backoff_interval > p.poll_interval
                           THEN p.backoff_interval ELSE p.poll_interval)
          /\ now' - now >= p.poll_interval
          /\ now' - now >= wh.slept
          /\ wh'.slept = now' - now]_vars

\* The loop slept poll_interval, then the longer backoff interval
C22_Witness ==
    /\ wpc = "loop"
    /\ cycle >= 2
    /\ p.backoff_after > 0
    /\ p.backoff_interval > p.poll_interval
    /\ wh.slept = p.backoff_interval
    /\ now = wh.now_mono + wh.slept

PolicyUnset(given) ==
    /\ IsNil(given.stale_seconds)
    /\ IsNil(given.steady_ok_polls)
    /\ IsNil(given.poll_interval)
    /\ IsNil(given.timeout)
    /\ IsNil(given.require_init_success)

\* C27: when the caller sets no value the policy is stale_seconds = 300,
\* steady_ok_polls = 3, poll_interval = 3, timeout = 180 and
\* require_init_success = true, and success needs three consecutive passing
\* cycles.
C27_StatedDefaults ==
    (\E given \in PaceGiven : PolicyUnset(given) /\ p = ModuleParams(given)) =>
        /\ p.stale_seconds = 300
        /\ p.steady_ok_polls = 3
        /\ p.poll_interval = 3
        /\ p.timeout = 180
        /\ p.require_init_success = TRUE
        /\ exit.outcome = "succeeded" => wh.pass_run >= 3

-----------------------------------------------------------------------------
(* Claims about the provisioning modules *)

\* C28: ds_repl_agreement with state=present, run a second time with the
\* same parameters on a directory that nothing else changed, issues no add,
\* modify or delete and reports changed=false.
C28_AgreementPresentIdempotent ==
    (/\ agmt_run.n >= 2
     /\ Val(agmt_run.params).state = "present"
     /\ ~Val(agmt_run.params).check_mode
     /\ agmt_run.prev_result.outcome = "ok" /\ agmt_run.prev_clean
     /\ agmt_run.result.outcome = "ok" /\ agmt_run.clean)
    => (agmt_run.ops = <<>> /\ ~agmt_run.result.changed)

\* C29 as stated: a pre-check that reports replication enabled ends the run
\* with changed=false, enabled=true and no enable command; changed=true with
\* enabled=true is reported only after the enable command returned 0 and
\* the post-check confirmed the enabled state.
C29_ChangedOnlyAfterEnable ==
    /\ enable_run.pre = Some(TRUE) =>
          /\ enable_run.cmd = Nil
          /\ enable_run.pc = "done" /\ enable_run.result.outcome = "ok"
          /\ ~enable_run.result.changed /\ enable_run.result.enabled
    /\ (enable_run.result.changed /\ enable_run.result.enabled) =>
          (enable_run.enable_rc = "zero" /\ enable_run.post = Some(TRUE))

\* C29 (amended): a pre-check that reports replication enabled ends the run
\* with changed=false, enabled=true and no enable command; outside check
\* mode changed=true with enabled=true is reported only after the enable
\* command returned 0 and the post-check confirmed the enabled state; in
\* check mode no enable command is issued and a pre-check that does not
\* report replication enabled ends the run with changed=true, enabled=true.
C29_ChangedOnlyAfterEnableOutsideCheckMode ==
    ~IsNil(enable_run.params) =>
        /\ enable_run.pre = Some(TRUE) =>
              /\ enable_run.cmd = Nil
              /\ enable_run.pc = "done" /\ enable_run.result.outcome = "ok"
              /\ ~enable_run.result.changed /\ enable_run.result.enabled
        /\ (~Val(enable_run.params).check_mode
            /\ enable_run.result.changed /\ enable_run.result.enabled) =>
              (enable_run.enable_rc = "zero" /\ enable_run.post = Some(TRUE))
        /\ Val(enable_run.params).check_mode =>
              /\ enable_run.cmd = Nil
              /\ enable_run.pre = Some(FALSE) =>
                    (enable_run.result.changed /\ enable_run.result.enabled)

\* C29's case: outside check mode a run reports changed=true after the
\* enable command returned 0 and the post-check found replication enabled
C29_Witness ==
    /\ ~IsNil(enable_run.params) /\ ~Val(enable_run.params).check_mode
    /\ enable_run.pc = "done" /\ enable_run.result.changed /\ enable_run.result.enabled
    /\ enable_run.enable_rc = "zero" /\ enable_run.post = Some(TRUE)

-----------------------------------------------------------------------------
(* Further claims about CircuitBreaker and AdaptiveRetry *)

\* C34: for a threshold of 1 or more, after any sequence of can_execute,
\* record_success and record_failure calls the breaker is CLOSED exactly
\* when failure_count < threshold, and OPEN or HALF_OPEN only when
\* failure_count >= threshold.
C34_StateFollowsFailureCount ==
    cb.threshold >= 1 =>
        /\ (cb.state = "CLOSED") <=> (cb.failure_count < cb.threshold)
        /\ cb.state \in {"OPEN", "HALF_OPEN"} => cb.failure_count >= cb.threshold

\* A breaker that was opened, waited out its cooldown and went HALF_OPEN,
\* after failures and successes before
C34_Witness ==
    /\ cb.threshold >= 2
    /\ cb.state = "HALF_OPEN" /\ last_call = "can_execute"
    /\ cb.failure_count = cb.threshold
    /\ streak = cb.threshold
    /\ now > 2 * cb.timeout

\* Whole seconds slept for a sequence of delays (time.sleep ends on a whole second)
RECURSIVE TotalBackoff(_)
TotalBackoff(delays) ==
    IF delays = <<>> THEN 0 ELSE QCeil(Head(delays)) + TotalBackoff(Tail(delays))

\* The operation is never invoked while the breaker is OPEN
NeverInvokedWhileOpen ==
    /\ [](call.pc = "invoke" => cb.state # "OPEN")
    /\ [][rh'.invoked = rh.invoked + 1 => cb.state # "OPEN"]_vars

\* A finished call whose invocations all failed with retryable errors, with
\* circuit_breaker_threshold <= max_retries and less backoff than the cooldown
OnlyRetryableFailures ==
    /\ call.pc = "idle" /\ rh.calls >= 1
    /\ rh.outcome \in {"refused", "raised", "exhausted"}
    /\ rh.invoked >= 1 => should_retry(rh.error)
    /\ ar.config.circuit_breaker_threshold <= ar.config.max_retries
    /\ TotalBackoff(rh.delays) < cb.timeout

\* C35 as stated: the operation is never invoked while the breaker is OPEN
\* and its cooldown has not elapsed; with retryable failures only, threshold
\* <= max_retries and less backoff than the cooldown, a call invokes the
\* operation exactly circuit_breaker_threshold times and is then cut off.
C35_CutOffAfterThresholdInvocations ==
    /\ NeverInvokedWhileOpen
    /\ [](OnlyRetryableFailures =>
            (rh.outcome = "refused" /\ rh.invoked = ar.config.circuit_breaker_threshold))

\* C35 (amended): the operation is never invoked while the breaker is OPEN
\* and its cooldown has not elapsed; a call entered with failure_count 0
\* that meets retryable failures only, with threshold <= max_retries and
\* less backoff than the cooldown, invokes the operation exactly
\* circuit_breaker_threshold times and is then cut off; a call entered with
\* failures already counted is cut off as well, after at most that many
\* invocations.
C35_CutOffAfterThresholdInvocationsFromZero ==
    /\ NeverInvokedWhileOpen
    /\ [](OnlyRetryableFailures =>
            /\ rh.outcome = "refused"
            /\ rh.invoked <= ar.config.circuit_breaker_threshold
            /\ rh.began = 0 => rh.invoked = ar.config.circuit_breaker_threshold)

\* threshold 2, max_retries 2: two invocations fail with a retryable error,
\* two short sleeps, and the third attempt is refused
C35_Witness ==
    /\ OnlyRetryableFailures /\ rh.began = 0
    /\ ar.config.circuit_breaker_threshold = 2 /\ ar.config.max_retries = 2
    /\ rh.outcome = "refused" /\ rh.invoked = 2 /\ Len(rh.delays) = 2

-----------------------------------------------------------------------------
(* Further claims about ds_repl_wait's phases *)

\* The first of the stalled phases in the order configured, working, finished
EarliestDue ==
    IF "configured" \in DuePhases THEN "configured"
    ELSE IF "working" \in DuePhases THEN "working"
    ELSE "finished"

\* C40: in phase mode, a cycle that finds several requested phases false
\* past their deadlines reports the reason of the earliest of them in the
\* order configured, working, finished; start-timeout and done-timeout are
\* never reported by a cycle in which configured is requested, false and
\* past its deadline.
C40_EarliestStalledPhaseReported ==
    /\ Cardinality(DuePhases) >= 2 =>
          (wpc = "done" /\ exit.outcome = "failed" /\ exit.cycles = wh.cycle
           /\ exit.reason = PhaseReason(EarliestDue))
    /\ "configured" \in DuePhases => exit.reason \notin {"start-timeout", "done-timeout"}

\* One cycle finds all three phases stalled and reports configured-timeout
C40_Witness ==
    /\ DuePhases = {"configured", "working", "finished"}
    /\ wpc = "done" /\ exit.reason = "configured-timeout"

\* A cycle finds working and finished stalled while configured holds
C40_WitnessWorkingFirst ==
    /\ DuePhases = {"working", "finished"}
    /\ wpc = "done" /\ exit.reason = "start-timeout"

ReadFailed(o) == IsNil(o.update_age) /\ IsNil(o.enabled) /\ IsNil(o.busy)

\* C39: in legacy mode (no require given) no cycle in which the observation
\* of a targeted agreement is missing ends the invocation with success.
C39_LegacyNoSuccessWithMissing ==
    (wpc = "done" /\ exit.outcome = "succeeded" /\ IsNil(p.require)) =>
        \A i \in 1..Len(last_obs) : ~ReadFailed(last_obs[i])

-----------------------------------------------------------------------------
(* Further claims about the trend between two cycles *)

\* The update-start epoch of o is later than the one kept from the cycle before
StartAdvanced(o) ==
    /\ o.dn \in DOMAIN wh.prev
    /\ ~IsNil(o.update_start_epoch) /\ ~IsNil(wh.prev[o.dn].update_start_epoch)
    /\ Val(o.update_start_epoch) > Val(wh.prev[o.dn].update_start_epoch)

\* The age of o was known in the cycle before and is unknown (None or -1) now
AgeBecameUnknown(o) ==
    /\ o.dn \in DOMAIN wh.prev
    /\ ~IsNil(wh.prev[o.dn].age) /\ Val(wh.prev[o.dn].age) >= 0
    /\ ~AgeKnown(o)

-----------------------------------------------------------------------------
(* SpecDrift: run_module of ds_repl_wait over two cycles on one agreement   *)
(* whose entry either stays as it is (its last update started and ended     *)
(* before the invocation) or reports an update that ended just now. The     *)
(* clock of line 357 is read up to a second after the one of line 168.      *)

\* enabled, not busy, the last update ran from second -3 to second -2
EntDone == Entry(Some(TxtOn), Some(TxtInitOk), Some(TxtUpdateOk),
                 Some(Gtz(-3)), Some(Gtz(-2)), Some(TxtFalse))

DriftScenes(dns, t) ==
    {[rep |-> RepOn, entries |-> es] : es \in [1..Len(dns) -> {EntDone, EntOk(t), EntIdle}]}

InitDrift ==
    /\ p \in {WideParam(<<AgmtDn(Cn1)>>, rq, TRUE) : rq \in {Nil, Req(TRUE, TRUE, TRUE)}}
    /\ wpc = "start"
    /\ target_dns = <<>>
    /\ ok_streak = 0
    /\ cycle = 0
    /\ last_obs = <<>>
    /\ hints = {}
    /\ prev_by_dn = EmptyMap
    /\ backlog_by_name = EmptyMap
    /\ elapsed = 0
    /\ exit = NoExit
    /\ wh = NoVerdicts
    /\ now = start_ts
    /\ cb = CircuitBreakerInit(DefaultThreshold, DefaultCooldown)
    /\ can_ret = "none"
    /\ streak = 0
    /\ last_call = "init"
    /\ ar = NoRetry
    /\ call = NoCall
    /\ rh = NoHistory
    /\ ProvOff

WCycleDrift == CycleStep(DriftScenes(target_dns, now), {"locals"})

NextDrift == WResolve \/ WCycleDrift \/ WTimeout \/ WSleep

SpecDrift == InitDrift /\ [][NextDrift]_vars

-----------------------------------------------------------------------------
(* SpecLdap: one call of DsLdap._run_with_retry. One step is one            *)
(* subprocess.run with what follows it up to the sleep, one step the sleep. *)
(* Sleeps are rationals of seconds.                                         *)

RETRIES == 3
BACKOFF_BASE == <<1, 2>>

\* What subprocess.run can do: return with a return code, raise
\* TimeoutExpired after op_timeout, or raise OSError because the command
\* cannot be started (ldapsearch is not installed)
RunOutcomes ==
    {[kind |-> "returned", rc |-> rc] : rc \in {0, 1, 49}}
        \cup {[kind |-> "timeout", rc |-> 0], [kind |-> "oserror", rc |-> 0]}

\* random.uniform(0, 0.25), at its ends and in the middle
BackoffJitter == {<<0, 1>>, <<1, 8>>, <<1, 4>>}

QAdd(a, b) == Q(a[1] * b[2] + b[1] * a[2], a[2] * b[2])

\* Line 118: BACKOFF_BASE * attempt + random.uniform(0, 0.25)
backoff_sleep(attempt, jitter) == QAdd(QMul(BACKOFF_BASE, <<attempt, 1>>), jitter)

\* Lines 111-116: the error kept for a failed attempt
AttemptError(out) ==
    IF out.kind = "timeout"
    THEN [type |-> "DsLdapError", message |-> <<"LDAP command timeout">>, code |-> Nil]
    ELSE [type |-> "DsLdapError", message |-> <<"Command failed rc=", IntStr(out.rc)>>,
          code |-> Some(out.rc)]

\* Line 117
SleepDue(attempt) == attempt < RETRIES

NoLdapResult == [kind |-> "none", rc |-> 0, exc |-> Nil]

InitLdap ==
    /\ ldap_call = [pc |-> "run", attempt |-> 1, last_err |-> Nil, runs |-> <<>>,
                    sleeps |-> <<>>, result |-> NoLdapResult]
    /\ init_run = NoInitRun
    /\ dir = NoDir
    /\ agmt_run = NoAgreementRun
    /\ enable_run = NoEnableRun
    /\ now = 0
    /\ cb = CircuitBreakerInit(DefaultThreshold, DefaultCooldown)
    /\ can_ret = "none"
    /\ streak = 0
    /\ last_call = "init"
    /\ ar = NoRetry
    /\ call = NoCall
    /\ rh = NoHistory
    /\ WaitOff

LdapIdle ==
    UNCHANGED <<cb, now, can_ret, streak, last_call, retryVars, waitVars, dir, agmt_run,
                enable_run, init_run>>

\* Lines 98-117 and 119-120 for one attempt: the command runs; return code 0
\* returns, OSError leaves the function, anything else is kept in last_err;
\* then the call sleeps, or the loop ends and last_err is raised
LRun ==
    /\ ldap_call.pc = "run"
    /\ \E out \in RunOutcomes :
        LET ran == [ldap_call EXCEPT !.runs = Append(@, out)]
        IN ldap_call' =
            IF out.kind = "returned" /\ out.rc = 0
            THEN [ran EXCEPT !.pc = "done",
                             !.result = [kind |-> "returned", rc |-> 0, exc |-> Nil]]
            ELSE IF out.kind = "oserror"
            THEN [ran EXCEPT !.pc = "done",
                             !.result = [kind |-> "raised", rc |-> 0,
                                         exc |-> Some([type |-> "OSError",
                                                       message |-> <<"No such file">>,
                                                       code |-> Nil])]]
            ELSE IF SleepDue(ldap_call.attempt)
            THEN [ran EXCEPT !.pc = "sleep", !.last_err = Some(AttemptError(out))]
            ELSE [ran EXCEPT !.pc = "done", !.last_err = Some(AttemptError(out)),
                             !.result = [kind |-> "raised", rc |-> 0,
                                         exc |-> Some(AttemptError(out))]]
    /\ LdapIdle

\* Line 118, and the next turn of the loop
LSleep ==
    /\ ldap_call.pc = "sleep"
    /\ \E j \in BackoffJitter :
        ldap_call' = [ldap_call EXCEPT
                        !.sleeps = Append(@, backoff_sleep(ldap_call.attempt, j)),
                        !.attempt = @ + 1,
                        !.pc = "run"]
    /\ LdapIdle

NextLdap == LRun \/ LSleep

SpecLdap == InitLdap /\ [][NextLdap]_vars

-----------------------------------------------------------------------------
(* Claims about DsLdap._run_with_retry *)

LastRun == ldap_call.runs[Len(ldap_call.runs)]

\* Runs and sleeps of _run_with_retry: at most RETRIES runs, a sleep only
\* between two attempts, a return at once on the first return code 0
RunsAndSleeps ==
    /\ Len(ldap_call.runs) <= RETRIES
    /\ \A i \in 1..(Len(ldap_call.runs) - 1) :
          ~(ldap_call.runs[i].kind = "returned" /\ ldap_call.runs[i].rc = 0)
    /\ ldap_call.pc = "done" =>
          /\ Len(ldap_call.sleeps) = Len(ldap_call.runs) - 1
          /\ (LastRun.kind = "returned" /\ LastRun.rc = 0) <=>
                ldap_call.result.kind = "returned"

\* C31: _run_with_retry runs the command at most RETRIES times, returns at
\* once on the first return code 0, sleeps only between attempts and never
\* after the last, and when no run succeeded it raises a DsLdapError that
\* describes the last failed attempt (non-zero return code or timeout).
C31_RaisesDsLdapErrorOfLastAttempt ==
    ldap_call.pc # "off" =>
        /\ RunsAndSleeps
        /\ (ldap_call.pc = "done" /\ ~(LastRun.kind = "returned" /\ LastRun.rc = 0)) =>
              /\ ldap_call.result.kind = "raised"
              /\ Val(ldap_call.result.exc).type = "DsLdapError"
              /\ LastRun.kind \in {"returned", "timeout"}
              /\ ldap_call.result.exc = Some(AttemptError(LastRun))

\* What _run_with_retry does keep: the runs, the sleeps, and the DsLdapError
\* of the last attempt when RETRIES attempts ended with a non-zero return
\* code or a timeout
RaisesErrorOfLastHandledAttempt ==
    ldap_call.pc # "off" =>
        /\ RunsAndSleeps
        /\ (ldap_call.pc = "done" /\ LastRun.kind # "oserror"
            /\ ~(LastRun.kind = "returned" /\ LastRun.rc = 0)) =>
              /\ Len(ldap_call.runs) = RETRIES
              /\ ldap_call.result.kind = "raised"
              /\ ldap_call.result.exc = Some(AttemptError(LastRun))

-----------------------------------------------------------------------------
(* SpecInit: one invocation of ds_repl_init. One step is run_module up to    *)
(* the loop, one turn of the loop up to its sleep, the sleep, or the exit    *)
(* after the loop.                                                           *)

MaxInitTimeout == 3     \* the timeout explored beside 0, in seconds

\* stdout of dsconf repl-agmt init-status
OutNone == <<>>
OutInProgress == <<"A", "g", "r", "e", "e", "m", "e", "n", "t", " ", "i", "n", "i", "t", "i", "a", "l", "i", "z", "a", "t", "i", "o", "n", " ", "i", "n", " ", "p", "r", "o", "g", "r", "e", "s", "s", ".">>
OutSuccess == <<"A", "g", "r", "e", "e", "m", "e", "n", "t", " ", "S", "u", "c", "c", "e", "s", "s", "f", "u", "l", "l", "y", " ", "I", "n", "i", "t", "i", "a", "l", "i", "z", "e", "d", ".">>
OutTotal == <<"T", "o", "t", "a", "l", " ", "i", "n", "i", "t", " ", "s", "u", "c", "c", "e", "e", "d", "e", "d">>
OutNotInit == <<"A", "g", "r", "e", "e", "m", "e", "n", "t", " ", "h", "a", "s", " ", "n", "o", "t", " ", "b", "e", "e", "n", " ", "i", "n", "i", "t", "i", "a", "l", "i", "z", "e", "d", ".">>
OutError == <<"E", "r", "r", "o", "r", ":", " ", "a", "g", "r", "e", "e", "m", "e", "n", "t", " ", "n", "o", "t", " ", "f", "o", "u", "n", "d">>
StatusOutputs == {OutNone, OutInProgress, OutSuccess, OutTotal, OutNotInit, OutError}

KwSuccessfullyInitialized == <<"s", "u", "c", "c", "e", "s", "s", "f", "u", "l", "l", "y", " ", "i", "n", "i", "t", "i", "a", "l", "i", "z", "e", "d">>
KwTotalInitSucceeded == <<"t", "o", "t", "a", "l", " ", "i", "n", "i", "t", " ", "s", "u", "c", "c", "e", "e", "d", "e", "d">>
KwInitialized == <<"i", "n", "i", "t", "i", "a", "l", "i", "z", "e", "d">>

\* Mutant of init_succeeded: any output that speaks of "initialized" counts
init_succeeded_loose(out) ==
    LET low == StrLower(out)
    IN StrContains(low, KwInitialized) \/ StrContains(low, KwTotalInitSucceeded)
\* Lines 151-152
init_succeeded(out) ==
    LET low == StrLower(out)
    IN StrContains(low, KwSuccessfullyInitialized) \/ StrContains(low, KwTotalInitSucceeded)

MsgInitFailed == "dsconf repl-agmt init failed"
MsgInitTimeout == "Timeout waiting for successful initialization"

\* The parameters explored: wait, timeout, poll_interval, and check mode
InitParams ==
    [wait : BOOLEAN, timeout : {0, MaxInitTimeout}, poll_interval : {1, 2},
     check_mode : BOOLEAN]

\* What exit_json and fail_json are given; an exception nothing catches
\* ends the module as "crash"
InResult(outcome, changed, msg, status, polls) ==
    [outcome |-> outcome, changed |-> changed, msg |-> msg, status |-> status,
     polls |-> polls]
NoInResult == InResult("none", FALSE, "", Nil, Nil)

NewInitRun(q) ==
    [params |-> Some(q), pc |-> "start", init_rc |-> "none", end_by |-> 0,
     last_out |-> OutNone, poll_count |-> 0, outs |-> <<>>, result |-> NoInResult]

\* What a dsconf command takes, in seconds
CommandDurations == {0, 1}

\* The init command: return code 0, another return code, or TimeoutExpired
InitOutcomes == {"zero", "nonzero", "timeout"}

InitInit ==
    /\ \E q \in InitParams : init_run = NewInitRun(q)
    /\ ldap_call = NoLdapCall
    /\ dir = NoDir
    /\ agmt_run = NoAgreementRun
    /\ enable_run = NoEnableRun
    /\ now = 0
    /\ cb = CircuitBreakerInit(DefaultThreshold, DefaultCooldown)
    /\ can_ret = "none"
    /\ streak = 0
    /\ last_call = "init"
    /\ ar = NoRetry
    /\ call = NoCall
    /\ rh = NoHistory
    /\ WaitOff

InitIdle ==
    UNCHANGED <<cb, can_ret, streak, last_call, retryVars, waitVars, dir, agmt_run,
                enable_run, ldap_call>>

\* Lines 121-137: the exit of check mode, the init command and the exits on
\* its return code and on wait, and the deadline of the loop
IStart ==
    /\ ~IsNil(init_run.params) /\ init_run.pc = "start"
    /\ LET q == Val(init_run.params)
       IN IF q.check_mode
          THEN /\ init_run' = [init_run EXCEPT !.pc = "done",
                                 !.result = InResult("exit", TRUE, "", Nil, Nil)]
               /\ now' = now
          ELSE \E rc \in InitOutcomes, d \in CommandDurations :
                /\ now' = now + d
                /\ LET ran == [init_run EXCEPT !.init_rc = rc]
                   IN init_run' =
                        IF rc = "timeout"
                        THEN [ran EXCEPT !.pc = "done",
                                         !.result = InResult("crash", FALSE, "", Nil, Nil)]
                        ELSE IF rc = "nonzero"
                        THEN [ran EXCEPT !.pc = "done",
                                         !.result = InResult("fail", FALSE, MsgInitFailed,
                                                             Nil, Nil)]
                        ELSE IF ~q.wait
                        THEN [ran EXCEPT !.pc = "done",
                                         !.result = InResult("exit", TRUE, "", Nil, Nil)]
                        ELSE [ran EXCEPT !.pc = "loop", !.end_by = now + d + q.timeout]
    /\ InitIdle

\* Lines 139-154: one turn of the loop up to its sleep; the status command
\* answers with some output or raises TimeoutExpired
IPoll ==
    /\ ~IsNil(init_run.params) /\ init_run.pc = "loop"
    /\ now < init_run.end_by
    /\ \E d \in CommandDurations :
        /\ now' = now + d
        /\ \/ init_run' = [init_run EXCEPT !.poll_count = @ + 1, !.pc = "done",
                             !.result = InResult("crash", FALSE, "", Nil, Nil)]
           \/ \E out \in StatusOutputs :
                LET polled == [init_run EXCEPT !.poll_count = @ + 1, !.last_out = out,
                                               !.outs = Append(@, out)]
                IN init_run' =
                    IF init_succeeded(out)
                    THEN [polled EXCEPT !.pc = "done",
                            !.result = InResult("exit", TRUE, "", Some(out),
                                                Some(polled.poll_count))]
                    ELSE [polled EXCEPT !.pc = "sleep"]
    /\ InitIdle

\* Line 155
ISleep ==
    /\ ~IsNil(init_run.params) /\ init_run.pc = "sleep"
    /\ now' = now + Val(init_run.params).poll_interval
    /\ init_run' = [init_run EXCEPT !.pc = "loop"]
    /\ InitIdle

\* Lines 139 and 157: the loop ends at the deadline
ITimeout ==
    /\ ~IsNil(init_run.params) /\ init_run.pc = "loop"
    /\ ~(now < init_run.end_by)
    /\ init_run' = [init_run EXCEPT !.pc = "done",
                      !.result = InResult("fail", FALSE, MsgInitTimeout,
                                          Some(init_run.last_out), Nil)]
    /\ now' = now
    /\ InitIdle

NextInit == IStart \/ IPoll \/ ISleep \/ ITimeout

SpecInit == InitInit /\ [][NextInit]_vars

-----------------------------------------------------------------------------
(* Claims about ds_repl_init *)

InitDone == ~IsNil(init_run.params) /\ init_run.pc = "done"

LastOut == init_run.outs[Len(init_run.outs)]

\* A status output that holds one of the two phrases, in any case of letters
HasSuccessPhrase(out) ==
    \E i \in 1..Len(out) : \E k \in {KwSuccessfullyInitialized, KwTotalInitSucceeded} :
        /\ i + Len(k) - 1 <= Len(out)
        /\ \A j \in 1..Len(k) : LowerChar(out[i + j - 1]) = k[j]

\* The timeout and the failing init command: the failure of the timeout
\* carries the last status output and follows only outputs without the
\* phrases; a failing init command fails with no poll made
TimeoutAndInitFailure ==
    /\ (InitDone /\ init_run.result.msg = MsgInitTimeout) =>
          /\ init_run.result.outcome = "fail"
          /\ init_run.init_rc = "zero"
          /\ now >= init_run.end_by
          /\ \A i \in 1..Len(init_run.outs) : ~HasSuccessPhrase(init_run.outs[i])
          /\ init_run.result.status =
                Some(IF init_run.outs = <<>> THEN OutNone ELSE LastOut)
    /\ (~IsNil(init_run.params) /\ init_run.init_rc \in {"nonzero", "timeout"}) =>
          /\ init_run.pc = "done"
          /\ init_run.result.outcome \in {"fail", "crash"}
          /\ init_run.init_rc = "nonzero" => init_run.result.msg = MsgInitFailed
          /\ init_run.poll_count = 0 /\ init_run.outs = <<>>

C32_WitnessTimeout ==
    /\ InitDone
    /\ init_run.result.msg = MsgInitTimeout
    /\ Len(init_run.outs) = 2
    /\ init_run.result.status = Some(OutInProgress)

-----------------------------------------------------------------------------
(* ds_repl_info: the summary of run_module (lines 325-432), over the entries *)
(* ds_repl_wait reads. The entries carry no nsds5replicaLastInitStatusJSON,  *)
(* and the cn of an agreement is the cn of its DN.                           *)

\* _CODE_RE.match(s) with _CODE_RE = ^(-?\d+): the integer s begins with, or None
CodeMatch(s) ==
    IF s # <<>> /\ IsDigit(s[1]) THEN Some(ReadDigits(s, 1, 0))
    ELSE IF Len(s) >= 2 /\ s[1] = "-" /\ IsDigit(s[2]) THEN Some(0 - ReadDigits(s, 2, 0))
    ELSE Nil

\* Lines 359-371 with init_json None
init_status_label(init_status, init_code) ==
    IF IsNil(init_status) THEN Nil
    ELSE IF init_code = Some(0) THEN Some("Done")
    ELSE IF Val(init_status) # <<>> THEN Some("Unknown")
    ELSE Nil

\* Lines 325-397: one element of agmts
InfoAgreement(dn, e, backlog) ==
    LET init_code == IF IsNil(e.init_status) THEN Nil ELSE CodeMatch(Val(e.init_status))
        upd_code == IF IsNil(e.upd_status) THEN Nil ELSE CodeMatch(Val(e.upd_status))
    IN [dn |-> dn,
        name |-> cn_from_dn(dn),
        enabled |-> IF IsNil(e.enabled) THEN Nil
                    ELSE Some(StrLower(Val(e.enabled)) \in TruthyWords),
        busy |-> IF IsNil(e.busy) THEN Nil
                 ELSE Some(StrLower(StrStrip(Val(e.busy))) \in TruthyWords),
        init_status |-> init_status_label(e.init_status, init_code),
        last_init_code |-> init_code,
        last_update_code |-> upd_code,
        last_update_epoch |-> IF IsNil(e.upd_end) THEN Nil ELSE gtz_to_epoch(Val(e.upd_end)),
        backlog |-> Get(backlog, cn_from_dn(dn))]

\* Lines 399-430: configured, working and finished of the summary
summary(agmts, now_epoch, stale) ==
    LET Idx == 1..Len(agmts)
        RecentOk(a) ==
            /\ a.last_update_code = Some(0)
            /\ ~IsNil(a.last_update_epoch)
            /\ now_epoch - Val(a.last_update_epoch) <= stale
        configured == \E i \in Idx : agmts[i].enabled = Some(TRUE)
        recent_ok == \E i \in Idx : RecentOk(agmts[i])
        any_busy == \E i \in Idx : agmts[i].busy = Some(TRUE)
        none_busy == agmts # <<>> /\ \A i \in Idx : agmts[i].busy \in {Some(FALSE), Nil}
        init_ok == agmts # <<>> /\ \A i \in Idx :
                        \/ agmts[i].last_init_code \in {Nil, Some(0)}
                        \/ agmts[i].init_status \in {Some("Done"), Some("Completed")}
        all_recent_ok == agmts # <<>> /\ \A i \in Idx : RecentOk(agmts[i])
        backlog_ok == agmts # <<>> /\ \A i \in Idx :
                        agmts[i].backlog \in {Nil, Some(0)}
    IN [configured |-> configured,
        working |-> any_busy \/ recent_ok,
        finished |-> none_busy /\ init_ok /\ all_recent_ok /\ backlog_ok]

-----------------------------------------------------------------------------
(* Claims about ds_repl_info and ds_repl_wait *)

\* The entries read in the last cycle, all of them found
EntriesRead ==
    /\ wh.cycle >= 1
    /\ Len(wh.entries) = Len(target_dns)
    /\ \A i \in 1..Len(wh.entries) : wh.entries[i].found

\* The summary of ds_repl_info for these entries at the clock reading of the
\* last cycle
InfoSummary ==
    summary([i \in 1..Len(target_dns) |->
                InfoAgreement(target_dns[i], wh.entries[i], backlog_by_name)],
            wh.now_mono, p.stale_seconds)

\* The aggregates of ds_repl_wait for the same entries, read and aggregated
\* at that clock reading, with no trend history
WaitFirstCycle ==
    Aggregates([i \in 1..Len(target_dns) |->
                   Observation(target_dns[i], wh.entries[i], Nil, wh.now_mono)],
               EmptyMap, backlog_by_name, wh.now_mono, p)

\* C33: for the same agreement observations, stale threshold and clock
\* reading, with no trend history and require_init_success on, the summary
\* (configured, working, finished) of ds_repl_info equals the aggregates
\* (configured_met, working_met, finished_met) of ds_repl_wait.
C33_InfoAndWaitAgree ==
    (EntriesRead /\ p.require_init_success) =>
        /\ InfoSummary.configured = WaitFirstCycle.configured_met
        /\ InfoSummary.working = WaitFirstCycle.working_met
        /\ InfoSummary.finished = WaitFirstCycle.finished_met

====
